---- MODULE Spec2Model ----
(***************************************************************************)
(* A model of the connection manager `Auth` (auth.ts): the profile store,  *)
(* the active connection, the events it fires and the calls to its         *)
(* collaborators, with every public operation cut into the steps between   *)
(* its suspension points (awaits on the SSO service, the token provider,   *)
(* the credentials cache and the authentication callback).                 *)
(***************************************************************************)
EXTENDS Naturals, Sequences, FiniteSets, TLC

(* ------------------------------------------------------------------ *)
(* Bounds                                                               *)
(* ------------------------------------------------------------------ *)
\* Number of public calls started in one behaviour.
MaxCalls == 2
\* Number of call slots that may be in flight together in the concurrent
\* specifications.
MaxTasks == 2

(* ------------------------------------------------------------------ *)
(* Values                                                               *)
(* ------------------------------------------------------------------ *)
Undefined == "undefined"
\* SSO connection ids are random UUIDs, IAM ids name a credentials provider.
SsoIds == {"uuid-1", "uuid-2"}
IamIds == {"profile:default"}
Ids == SsoIds \cup IamIds
\* The implicit credential sources tryAutoConnect falls back to, in the order
\* it tries them (the legacy profile setting names "profile:default").
ec2ProfileId == "ec2:instance"
ecsProfileId == "ecs:instance"
legacyProfile == "profile:default"
sagemakerProfileId == "ec2:sagemaker-instance"
ImplicitIds == {ec2ProfileId, ecsProfileId, sagemakerProfileId}
\* The id of the temporary provider authenticateData stages for the static
\* credentials it is given.
tempId == "temp:static"
TempIds == {tempId}
\* Ids backed by a credentials provider of the environment.
ProviderIds == IamIds \cup ImplicitIds \cup TempIds
\* An IAM profile linked to an SSO connection (subtype 'linked') and the id of
\* the SSO connection it names as its ssoSession.
LinkedIds == {"sso:uuid-1#role"}
ssoSession(id) == "uuid-1"
\* Every id the store can hold.
AllIds == Ids \cup ImplicitIds \cup LinkedIds \cup TempIds
Tasks == 1..MaxTasks

ConnectionStates == {"unauthenticated", "authenticating", "valid", "invalid"}

\* The profiles callers pass to createConnection / updateConnection.
SsoProfiles ==
    { [type |-> "sso", startUrl |-> "https://a/start", ssoRegion |-> "us-east-1"],
      [type |-> "sso", startUrl |-> "https://b/start", ssoRegion |-> "eu-west-1"] }
IamProfile == [type |-> "iam", startUrl |-> "-", ssoRegion |-> "-"]
Profiles == SsoProfiles \cup {IamProfile}
NoInput == [type |-> "-", startUrl |-> "-", ssoRegion |-> "-"]

\* StoredProfile = Profile + ProfileMetadata; NoProfile stands for `undefined`.
\* The metadata kept is the connection state and the source (the product that
\* declared the profile; "-" stands for `undefined`).
NoProfile ==
    [type |-> "-", startUrl |-> "-", ssoRegion |-> "-", connectionState |-> "-",
     source |-> "-"]
Stored(p, st) ==
    [type |-> p.type, startUrl |-> p.startUrl, ssoRegion |-> p.ssoRegion,
     connectionState |-> st, source |-> "-"]

\* A Connection (projection of a stored profile); NoConn stands for `undefined`.
NoConn == [id |-> Undefined, type |-> "-", startUrl |-> "-", ssoRegion |-> "-", state |-> "-"]

\* What the authentication callback can resolve to.
Tokens == {"token-1", "token-2"}

VARIABLES
    store,              \* ProfileStore: id -> StoredProfile | NoProfile
    currentProfileId,   \* ProfileStore: the "current profile id" pointer
    activeConnection,   \* Auth.#activeConnection
    validationErrors,   \* Auth.#validationErrors (the ids that have an entry)
    pending,            \* keyedDebounce(_authenticate): the in-flight run per id
    log,                \* events fired and collaborator calls made since the
                        \* last call started from quiescence, in order
    tasks,              \* the call slots: operation, position and locals
    env,                \* the process environment; its registry of credentials
                        \* providers changes only when authenticateData stages
                        \* and removes its temporary provider
    calls,              \* number of calls started
    invalidCredentialsTimeouts,
                        \* Auth.#invalidCredentialsTimeouts (the ids whose
                        \* re-auth timer is armed)
    tryAutoConnectOnce, \* once(_tryAutoConnect): "none", "running" or the outcome
    isInternalUser,     \* the editor's context key 'aws.isInternalUser'
    managedVisualizations,
                        \* ApplicationComposerManager.managedVisualizations:
                        \* file path -> visualization (0: no entry)
    visualizations,     \* the ApplicationComposer objects created so far
    composerCalls       \* the visualizeTemplate calls: position and locals

vars == <<store, currentProfileId, activeConnection, validationErrors, pending,
          log, tasks, env, calls, invalidCredentialsTimeouts, tryAutoConnectOnce,
          isInternalUser, managedVisualizations, visualizations, composerCalls>>

\* The Application Composer manager is an object of its own; no operation of
\* Auth touches it.
composerVars == <<managedVisualizations, visualizations, composerCalls>>

(* ------------------------------------------------------------------ *)
(* Log entries                                                          *)
(* ------------------------------------------------------------------ *)
Entry(k, id, st) == [k |-> k, id |-> id, st |-> st]
\* events
EvActive(conn) == Entry("activeConnectionChanged", conn.id, conn.state)
EvState(id, st) == Entry("connectionStateChanged", id, st)
EvDeleted(id, profile) ==
    Entry("connectionDeleted", id, IF profile = NoProfile THEN "absent" ELSE "present")
EvUpdated(conn) == Entry("connectionUpdated", conn.id, conn.state)
\* store writes and collaborator calls
Wr(k, id) == Entry(k, id, "-")
\* a collaborator call that failed, with its error
Failed(id, err) == Entry("failed", id, err)

Count(seq, P(_)) == Cardinality({i \in 1..Len(seq) : P(seq[i])})
Positions(seq, P(_)) == {i \in 1..Len(seq) : P(seq[i])}

(* ------------------------------------------------------------------ *)
(* The part of the state the synchronous helpers thread through:      *)
(* `threw` is "" or the name of the error raised.                     *)
(* ------------------------------------------------------------------ *)
Cur ==
    [store |-> store, cur |-> currentProfileId, active |-> activeConnection,
     errs |-> validationErrors, pending |-> pending, log |-> log, threw |-> "",
     timers |-> invalidCredentialsTimeouts, internal |-> isInternalUser]

Commit(s) ==
    /\ store' = s.store
    /\ currentProfileId' = s.cur
    /\ activeConnection' = s.active
    /\ validationErrors' = s.errs
    /\ invalidCredentialsTimeouts' = s.timers
    /\ pending' = s.pending
    /\ log' = s.log
    /\ isInternalUser' = s.internal
    /\ UNCHANGED composerVars

Emit(s, e) == [s EXCEPT !.log = Append(@, e)]
Throw(s, err) == [s EXCEPT !.threw = err]

\* The start URL that marks an internal user (sso/constants.internalStartUrl).
internalStartUrl == "https://amzn.awsapps.com/start"

\* A start URL as text: the characters of its trailing run of '/' and '#'
\* apart from what precedes them.
UrlText(startUrl) ==
    IF startUrl = "https://amzn.awsapps.com/start/"
        THEN <<"https://amzn.awsapps.com/start", "/">>
    ELSE IF startUrl = "https://amzn.awsapps.com/start/#"
        THEN <<"https://amzn.awsapps.com/start", "/", "#">>
    ELSE <<startUrl>>
UrlOf(text) ==
    IF Len(text) = 1 THEN text[1]
    ELSE IF text = <<"https://amzn.awsapps.com/start", "/">>
        THEN "https://amzn.awsapps.com/start/"
    ELSE "https://amzn.awsapps.com/start/#"

\* startUrl.replace(/[\/#]+$/g, '')
RECURSIVE StripTrailing(_)
StripTrailing(text) ==
    IF Len(text) > 1 /\ text[Len(text)] \in {"/", "#"}
        THEN StripTrailing(SubSeq(text, 1, Len(text) - 1))
        ELSE text

\* Auth.normalizeStartUrl; "-" stands for `undefined`
normalizeStartUrl(startUrl) ==
    IF startUrl = "-" THEN "-" ELSE UrlOf(StripTrailing(UrlText(startUrl)))

\* Auth.isInternalAmazonUser, with Auth.startUrl and Auth.isConnected
isInternalAmazonUser(s) ==
    /\ s.active # NoConn
    /\ (IF s.active.type = "sso" THEN normalizeStartUrl(s.active.startUrl) ELSE "-")
           = internalStartUrl

\* setContext('aws.isInternalUser', value)
setContext(s, value) == [s EXCEPT !.internal = value]

getSsoConnection(id, profile) ==
    [id |-> id, type |-> "sso", startUrl |-> profile.startUrl,
     ssoRegion |-> profile.ssoRegion, state |-> profile.connectionState]

getIamConnection(id, profile) ==
    [id |-> id, type |-> "iam", startUrl |-> "-", ssoRegion |-> "-",
     state |-> profile.connectionState]

getConnectionFromStoreEntry(id, profile) ==
    IF profile.type = "sso" THEN getSsoConnection(id, profile)
    ELSE getIamConnection(id, profile)

\* ProfileStore.setCurrentProfileId
setCurrentProfileId(s, id) ==
    Emit([s EXCEPT !.cur = id], Wr("setCurrentProfileId", id))

\* ProfileStore.updateMetadata(id, {connectionState})
updateMetadata(s, id, st) ==
    Emit([s EXCEPT !.store[id].connectionState = st], Wr("updateMetadata", id))

\* ProfileStore.deleteProfile
deleteProfile(s, id) ==
    Emit([s EXCEPT !.store[id] = NoProfile], Wr("deleteProfile", id))

\* ProfileStore.addProfile: fails when the id exists; new metadata is
\* {connectionState: 'unauthenticated'}
addProfile(s, id, profile) ==
    IF s.store[id] # NoProfile THEN Throw(s, "ProfileExists")
    ELSE Emit([s EXCEPT !.store[id] = Stored(profile, "unauthenticated")],
              Wr("addProfile", id))

\* ProfileStore.updateProfile: fails when absent; keeps the metadata
updateProfile(s, id, profile) ==
    IF s.store[id] = NoProfile THEN Throw(s, "ProfileNotFound")
    ELSE Emit([s EXCEPT !.store[id] =
                  [Stored(profile, s.store[id].connectionState) EXCEPT
                      !.source = s.store[id].source]],
              Wr("updateProfile", id))

\* loadIamProfilesIntoStore: the store's IAM profiles are made to agree with
\* the credentials providers the environment offers.
loadIamProfilesIntoStore(s) ==
    [s EXCEPT !.store =
        [i \in AllIds |->
            IF i \in ProviderIds /\ s.store[i] # NoProfile /\ i \notin env.providers
                THEN NoProfile
            ELSE IF i \in ProviderIds /\ s.store[i] = NoProfile /\ i \in env.providers
                THEN Stored(IamProfile, "unauthenticated")
            ELSE IF i \in LinkedIds /\ s.store[ssoSession(i)].type # "sso"
                THEN NoProfile
            ELSE s.store[i]]]

\* (a variant that changes the state of the active connection without
\* announcing it)
updateConnectionStateQuiet(s, id, connectionState) ==
    IF connectionState = "authenticating"
        THEN Emit(s, EvState(id, connectionState))
    ELSE IF s.store[id] = NoProfile
        THEN Throw(s, "ProfileNotFound")
    ELSE IF s.store[id].connectionState = connectionState
        THEN s
    ELSE LET s1 == updateMetadata(s, id, connectionState)
             s2 == IF connectionState # "invalid"
                       THEN [s1 EXCEPT !.errs = @ \ {id}, !.timers = @ \ {id}]
                       ELSE s1
             s3 == IF s2.active.id = id
                       THEN [s2 EXCEPT !.active.state = connectionState]
                       ELSE s2
         IN  Emit(s3, EvState(id, connectionState))

\* (a variant that also stores the state 'authenticating')
updateConnectionStateStoring(s, id, connectionState) ==
    IF s.store[id] = NoProfile
        THEN IF connectionState = "authenticating"
                 THEN Emit(s, EvState(id, connectionState))
                 ELSE Throw(s, "ProfileNotFound")
    ELSE IF s.store[id].connectionState = connectionState
        THEN s
    ELSE LET s1 == updateMetadata(s, id, connectionState)
             s2 == IF connectionState # "invalid"
                       THEN [s1 EXCEPT !.errs = @ \ {id}, !.timers = @ \ {id}]
                       ELSE s1
             s3 == IF s2.active.id = id
                       THEN Emit([s2 EXCEPT !.active.state = connectionState],
                                 EvActive([s2.active EXCEPT !.state = connectionState]))
                       ELSE s2
         IN  Emit(s3, EvState(id, connectionState))

\* (a variant that leaves the re-auth timer and the recorded error alone)
updateConnectionStateNoDispose(s, id, connectionState) ==
    IF connectionState = "authenticating"
        THEN Emit(s, EvState(id, connectionState))
    ELSE IF s.store[id] = NoProfile
        THEN Throw(s, "ProfileNotFound")
    ELSE IF s.store[id].connectionState = connectionState
        THEN s
    ELSE LET s1 == updateMetadata(s, id, connectionState)
             s3 == IF s1.active.id = id
                       THEN Emit([s1 EXCEPT !.active.state = connectionState],
                                 EvActive([s1.active EXCEPT !.state = connectionState]))
                       ELSE s1
         IN  Emit(s3, EvState(id, connectionState))

\* (a variant that writes and announces the state it is given even when it
\* is the state already stored)
updateConnectionStateAlways(s, id, connectionState) ==
    IF connectionState = "authenticating"
        THEN Emit(s, EvState(id, connectionState))
    ELSE IF s.store[id] = NoProfile
        THEN Throw(s, "ProfileNotFound")
    ELSE LET s1 == updateMetadata(s, id, connectionState)
             s2 == IF connectionState # "invalid"
                       THEN [s1 EXCEPT !.errs = @ \ {id}, !.timers = @ \ {id}]
                       ELSE s1
             s3 == IF s2.active.id = id
                       THEN Emit([s2 EXCEPT !.active.state = connectionState],
                                 EvActive([s2.active EXCEPT !.state = connectionState]))
                       ELSE s2
         IN  Emit(s3, EvState(id, connectionState))

\* Auth.updateConnectionState
updateConnectionState(s, id, connectionState) ==
    IF connectionState = "authenticating"
        THEN Emit(s, EvState(id, connectionState))
    ELSE IF s.store[id] = NoProfile
        THEN Throw(s, "ProfileNotFound")
    ELSE IF s.store[id].connectionState = connectionState
        THEN s
    ELSE LET s1 == updateMetadata(s, id, connectionState)
             s2 == IF connectionState # "invalid"
                       THEN [s1 EXCEPT !.errs = @ \ {id}, !.timers = @ \ {id}]
                       ELSE s1
             s3 == IF s2.active.id = id
                       THEN Emit([s2 EXCEPT !.active.state = connectionState],
                                 EvActive([s2.active EXCEPT !.state = connectionState]))
                       ELSE s2
         IN  Emit(s3, EvState(id, connectionState))

\* Auth.throwOnRecoverableError: network and disk-cache errors
\* The ToolkitError it raises keeps the error as its `cause` and copies its
\* `code`, so it is recognised as recoverable again when it is rethrown
\* through an outer handler.
RecoverableCauses == {"NetworkError", "DiskCacheError"}
ToolkitError(cause) ==
    IF cause = "NetworkError" THEN "ToolkitError(cause: NetworkError)"
    ELSE IF cause = "DiskCacheError" THEN "ToolkitError(cause: DiskCacheError)"
    ELSE cause
Recoverable(err) == err \in RecoverableCauses \cup {ToolkitError(c) : c \in RecoverableCauses}

\* Auth.handleSsoTokenError
handleSsoTokenError(s, id, err) ==
    IF Recoverable(err) THEN Throw(s, ToolkitError(err))
    ELSE [s EXCEPT !.errs = @ \cup {id}]

(* ------------------------------------------------------------------ *)
(* Call slots                                                           *)
(* ------------------------------------------------------------------ *)
\* What a call could see when it started: the active connection's id and
\* stored state, the pointer, and the type and stored state of its own id.
NoPre == [active |-> Undefined, activeStored |-> "-", cur |-> Undefined,
          type |-> "-", state |-> "-", hadError |-> FALSE]
IdleTask ==
    [op |-> "none", pc |-> "idle", id |-> Undefined, target |-> Undefined,
     profile |-> NoInput, sp |-> NoProfile, flag |-> FALSE, cont |-> "-",
     ret |-> "-", catch |-> "-",
     pre |-> NoPre, start |-> 0, run |-> 0, joined |-> FALSE,
     authRes |-> "", val |-> "-", res |-> "", out |-> NoConn,
     list |-> {}, faults |-> {}, seen |-> {}, got |-> "-"]

Busy(t) == tasks[t].pc \notin {"idle", "done"}
Quiescent == \A t \in Tasks : ~Busy(t)

\* A call starts in the lowest free slot.
CanStart(t) ==
    /\ calls < MaxCalls
    /\ ~Busy(t)
    /\ \A u \in Tasks : u < t => Busy(u)

\* The log restarts when a call starts with nothing else in flight.
StartLog == IF Quiescent THEN <<>> ELSE log

\* The record of a call that starts: its arguments and what it can see of
\* the state it starts in.
Begin(t, op, id) ==
    [IdleTask EXCEPT !.op = op, !.id = id, !.start = Len(StartLog),
        !.pre = [active |-> activeConnection.id,
                 activeStored |-> IF activeConnection.id \in AllIds
                                      THEN store[activeConnection.id].connectionState
                                      ELSE "-",
                 cur |-> currentProfileId,
                 type |-> IF id \in AllIds THEN store[id].type ELSE "-",
                 state |-> IF id \in AllIds THEN store[id].connectionState ELSE "-",
                 hadError |-> id \in validationErrors]]

\* A finished call keeps its arguments, its outcome and its result.
Finish(task, res) ==
    [IdleTask EXCEPT !.op = task.op, !.pc = "done", !.id = task.id,
        !.profile = task.profile, !.pre = task.pre, !.start = task.start,
        !.run = task.run, !.joined = task.joined, !.val = task.val,
        !.res = res, !.out = task.out, !.list = task.list, !.faults = task.faults,
        !.seen = task.seen, !.got = task.got]

\* Slot t continues as `task`; the records of finished calls are dropped when
\* a call starts with nothing else in flight.
SetTask(t, task) ==
    tasks' = [u \in Tasks |->
                 IF u = t THEN task
                 ELSE IF Quiescent THEN IdleTask
                 ELSE tasks[u]]

(* ------------------------------------------------------------------ *)
(* ApplicationComposerManager                                         *)
(* ------------------------------------------------------------------ *)
\* the state of Auth, which the manager leaves alone
authVars ==
    <<store, currentProfileId, activeConnection, validationErrors, pending, log,
      tasks, env, invalidCredentialsTimeouts, tryAutoConnectOnce, isInternalUser>>

Paths == {"/a/template.yaml", "/b/template.yaml"}
VizIds == 1..MaxCalls
NoViz == [path |-> "-", state |-> "none"]
\* (res: the visualization whose panel the call returned, 0 for none)
IdleCall == [pc |-> "idle", target |-> "-", path |-> "-", res |-> 0]

\* new ApplicationComposerManager(extensionContext): an empty map
ComposerInit ==
    /\ managedVisualizations = [p \in Paths |-> 0]
    /\ visualizations = [v \in VizIds |-> NoViz]
    /\ composerCalls = [c \in Tasks |-> IdleCall]

Live(path) == {v \in VizIds : visualizations[v] = [path |-> path, state |-> "live"]}

\* getExistingVisualization(key)
getExistingVisualization(key) == managedVisualizations[key]

\* visualizeTemplate once the document is at hand: an existing visualization
\* is shown and its panel returned; otherwise ApplicationComposer.create is
\* awaited
visualizeDocument(c, target, path) ==
    LET existingVisualization == getExistingVisualization(path)
    IN  composerCalls' = [composerCalls EXCEPT ![c] =
            IF existingVisualization # 0
                THEN [pc |-> "done", target |-> target, path |-> path,
                      res |-> existingVisualization]
                ELSE [pc |-> "create", target |-> target, path |-> path, res |-> 0]]

\* visualizeTemplate(target): a Uri is opened first (an await), a document is
\* used as it is
VisualizeTemplate(c, path, isUri) ==
    /\ calls < MaxCalls
    /\ composerCalls[c].pc \in {"idle", "done"}
    /\ IF isUri
           THEN composerCalls' = [composerCalls EXCEPT ![c] =
                                     [pc |-> "open", target |-> "uri", path |-> path,
                                      res |-> 0]]
           ELSE visualizeDocument(c, "document", path)
    /\ calls' = calls + 1
    /\ UNCHANGED <<managedVisualizations, visualizations, authVars>>

\* after `await vscode.workspace.openTextDocument(target)`
VisualizeOpened(c) ==
    /\ composerCalls[c].pc = "open"
    /\ visualizeDocument(c, "uri", composerCalls[c].path)
    /\ UNCHANGED <<managedVisualizations, visualizations, calls, authVars>>

\* handleNewVisualization(key, visualization): the map entry is set; the
\* dispose handler it subscribes is VisualizationDisposed
handleNewVisualization(key, visualization) ==
    managedVisualizations' = [managedVisualizations EXCEPT ![key] = visualization]

\* ApplicationComposer.create resolved with a new visualization
VisualizeCreated(c) ==
    /\ composerCalls[c].pc = "create"
    /\ \E v \in VizIds :
          /\ visualizations[v] = NoViz
          /\ \A u \in VizIds : u < v => visualizations[u] # NoViz
          /\ visualizations' = [visualizations EXCEPT ![v] =
                                    [path |-> composerCalls[c].path, state |-> "live"]]
          /\ handleNewVisualization(composerCalls[c].path, v)
          /\ composerCalls' = [composerCalls EXCEPT ![c].pc = "done", ![c].res = v]
    /\ UNCHANGED <<calls, authVars>>

\* ApplicationComposer.create rejected: handleErr, the call returns undefined
VisualizeFailed(c) ==
    /\ composerCalls[c].pc = "create"
    /\ composerCalls' = [composerCalls EXCEPT ![c].pc = "done", ![c].res = 0]
    /\ UNCHANGED <<managedVisualizations, visualizations, calls, authVars>>

\* the handler subscribed by handleNewVisualization:
\* this.managedVisualizations.delete(key)
disposeHandler(key, v) ==
    managedVisualizations' = [managedVisualizations EXCEPT ![key] = 0]

\* a visualization is disposed (its panel is closed) and fires
\* onVisualizationDisposeEvent
VisualizationDisposed(v) ==
    /\ visualizations[v].state = "live"
    /\ visualizations' = [visualizations EXCEPT ![v].state = "disposed"]
    /\ disposeHandler(visualizations[v].path, v)
    /\ UNCHANGED <<composerCalls, calls, authVars>>

NextComposer ==
    \/ \E c \in Tasks, path \in Paths, isUri \in BOOLEAN :
          VisualizeTemplate(c, path, isUri)
    \/ \E c \in Tasks : VisualizeOpened(c)
    \/ \E c \in Tasks : VisualizeCreated(c)
    \/ \E c \in Tasks : VisualizeFailed(c)
    \/ \E v \in VizIds : VisualizationDisposed(v)

(* ------------------------------------------------------------------ *)
(* Initial states: a fresh Auth over a store persisted by earlier     *)
(* sessions.                                                          *)
(* ------------------------------------------------------------------ *)
NoRun == [on |-> FALSE, originalState |-> "-", invalidate |-> FALSE, run |-> 0]

InitProfile == CHOOSE p \in SsoProfiles : p.ssoRegion = "us-east-1"
OtherProfile == CHOOSE p \in SsoProfiles : p # InitProfile
PersistedStates == {"unauthenticated", "valid", "invalid"}

Init ==
    /\ \E s1 \in {NoProfile} \cup {Stored(InitProfile, st) : st \in PersistedStates},
          i1 \in {NoProfile} \cup {Stored(IamProfile, st) : st \in PersistedStates} :
          store = [i \in AllIds |->
                      IF i = "uuid-1" THEN s1
                      ELSE IF i \in IamIds THEN i1
                      ELSE NoProfile]
    /\ currentProfileId \in {Undefined, "uuid-1"}
    /\ activeConnection = NoConn
    /\ validationErrors = {}
    /\ invalidCredentialsTimeouts = {}
    /\ tryAutoConnectOnce = "none"
    /\ isInternalUser = FALSE
    /\ ComposerInit
    /\ pending = [i \in AllIds |-> NoRun]
    /\ log = <<>>
    /\ tasks = [t \in Tasks |-> IdleTask]
    /\ env \in [dropTokens : BOOLEAN, providers : SUBSET IamIds, sagemaker : {FALSE}]
    /\ calls = 0

(* ------------------------------------------------------------------ *)
(* authenticate = keyedDebounce(_authenticate)                        *)
(* ------------------------------------------------------------------ *)
\* _authenticate up to the await of the callback
authenticateBegin(s, id, invalidate) ==
    LET originalState ==
            IF s.store[id] = NoProfile THEN "unauthenticated"
            ELSE s.store[id].connectionState
        s1 == updateConnectionState(s, id, "authenticating")
    IN  Emit([s1 EXCEPT !.pending[id] =
                 [on |-> TRUE, originalState |-> originalState,
                  invalidate |-> invalidate, run |-> Len(s1.log) + 1]],
             Wr("callback", id))

\* keyedDebounce: a call for a key that has a run in flight gets that run's
\* promise.
keyedDebounceHas(s, key) == s.pending[key].on

authenticateNoDebounce(s, id, invalidate) == authenticateBegin(s, id, invalidate)

authenticate(s, id, invalidate) ==
    IF keyedDebounceHas(s, id) THEN s ELSE authenticateBegin(s, id, invalidate)

\* _authenticate after the callback settled: the try block's tail and the
\* catch block. `outcome` is "ok" or the error the callback raised.
authenticateEnd(s, id, outcome) ==
    LET run == s.pending[id]
        onError(s0, err) ==
            LET s1 == handleSsoTokenError(s0, id, err)
                s2 == IF s1.threw # "" THEN s1
                      ELSE updateConnectionState(s1, id,
                               IF run.invalidate THEN "invalid" ELSE run.originalState)
            IN  IF s2.threw # "" THEN s2 ELSE Throw(s2, err)
        s3 == IF outcome = "ok"
                  THEN LET u == updateConnectionState(s, id, "valid")
                       IN  IF u.threw = "" THEN u
                           ELSE onError([u EXCEPT !.threw = ""], u.threw)
                  ELSE onError(s, outcome)
    IN  Emit([s3 EXCEPT !.pending[id] = NoRun], Wr("authenticateDone", id))

AuthWaitPcs == {"reauth_await", "use_auth", "tok_auth", "data_auth"}

CallbackErrors == {"AuthFailed", "NetworkError"}

\* The callback of the run in flight for `id` settles; every caller attached
\* to the run receives its outcome.
AuthenticateSettle(id, outcome, val) ==
    /\ pending[id].on
    /\ LET s == authenticateEnd(Cur, id, outcome)
       IN  /\ Commit([s EXCEPT !.threw = ""])
           /\ tasks' = [t \in Tasks |->
                  IF tasks[t].pc \in AuthWaitPcs /\ tasks[t].target = id
                         /\ tasks[t].authRes = ""
                      THEN [tasks[t] EXCEPT
                               !.authRes = IF s.threw = "" THEN "ok" ELSE s.threw,
                               !.val = IF s.threw = "" THEN val ELSE "-",
                               !.seen = IF outcome = "ok" THEN @ ELSE @ \cup {outcome}]
                      ELSE tasks[t]]
    /\ UNCHANGED <<env, calls, tryAutoConnectOnce>>

(* ------------------------------------------------------------------ *)
(* Steps of a call                                                    *)
(* ------------------------------------------------------------------ *)
\* The call saw a collaborator (token provider, credentials cache,
\* authentication callback) fail with `outcome`.
Saw(task, outcome) ==
    IF outcome \in {"ok", "token", "none", "hit", "miss", "canAutoConnect"}
        THEN [task EXCEPT !.got = outcome]
    ELSE [task EXCEPT !.seen = @ \cup {outcome}, !.got = outcome]

\* The outcome of a step: the state it leaves and the slot's new record.
R(s, task) == [s |-> s, task |-> task]

Goto(task, pc) == IF pc = "done" THEN Finish(task, "ok") ELSE [task EXCEPT !.pc = pc]

\* A nested call that returns `res` to the caller that awaits it: the call
\* slot continues at task.ret; a call made by the user settles.
Return(task, res) ==
    IF task.ret \in {"-", "done"} THEN Finish(task, res)
    ELSE [task EXCEPT !.pc = task.ret, !.res = res, !.ret = "-", !.catch = "-"]

\* An error that escapes a step goes to the enclosing try block's catch
\* (task.catch), if the caller has one, and rejects the call otherwise.
Step(t, r) ==
    IF r.s.threw # "" /\ r.task.catch # "-"
        THEN /\ SetTask(t, [r.task EXCEPT !.pc = r.task.catch, !.res = r.s.threw,
                                          !.ret = "-", !.catch = "-"])
             /\ Commit([r.s EXCEPT !.threw = ""])
    ELSE IF r.s.threw # ""
        THEN /\ SetTask(t, Finish(r.task, r.s.threw))
             /\ Commit([r.s EXCEPT !.threw = ""])
        ELSE /\ SetTask(t, r.task)
             /\ Commit(r.s)

(* ------------------------------------------------------------------ *)
(* invalidateConnection                                               *)
(* ------------------------------------------------------------------ *)
\* the tail: updateConnectionState(id, 'invalid'), then back to the caller
invalidateState(s, task) ==
    R(updateConnectionState(s, task.target, "invalid"), Goto(task, task.cont))

\* after client.logout(): provider.invalidate, unless tokens are kept
invalidateToken(s, task) ==
    IF env.dropTokens
        THEN R(Emit(s, Wr("provider.invalidate", task.target)),
               [task EXCEPT !.pc = "inv_token"])
        ELSE invalidateState(s, task)

\* (a variant that never asks the SSO service to log out)
invalidateConnectionLocal(s, task0, id, skipGlobalLogout, cont) ==
    LET task == [task0 EXCEPT !.target = id, !.flag = skipGlobalLogout, !.cont = cont]
        profile == s.store[id]
    IN  IF profile = NoProfile THEN R(Throw(s, "ProfileNotFound"), task)
        ELSE IF profile.type = "sso" THEN invalidateToken(s, task)
        ELSE invalidateState(Emit(s, Wr("invalidateCredentials", id)), task)

\* invalidateConnection(id, opt) up to its first await; `cont` is where the
\* caller continues
invalidateConnection(s, task0, id, skipGlobalLogout, cont) ==
    LET task == [task0 EXCEPT !.target = id, !.flag = skipGlobalLogout, !.cont = cont]
        profile == s.store[id]
    IN  IF profile = NoProfile THEN R(Throw(s, "ProfileNotFound"), task)
        ELSE IF profile.type = "sso"
            THEN IF ~skipGlobalLogout
                     THEN R(Emit(s, Wr("client.logout", id)),
                            [task EXCEPT !.pc = "inv_logout"])
                     ELSE invalidateToken(s, task)
        ELSE invalidateState(Emit(s, Wr("invalidateCredentials", id)), task)

InvalidateAfterLogout(t) ==
    /\ tasks[t].pc = "inv_logout"
    /\ Step(t, invalidateToken(Cur, tasks[t]))
    /\ UNCHANGED <<env, calls, tryAutoConnectOnce>>

InvalidateAfterToken(t) ==
    /\ tasks[t].pc = "inv_token"
    /\ Step(t, invalidateState(Cur, tasks[t]))
    /\ UNCHANGED <<env, calls, tryAutoConnectOnce>>

(* ------------------------------------------------------------------ *)
(* logout                                                             *)
(* ------------------------------------------------------------------ *)
\* logout() up to its first await; task.ret is where its caller continues
logoutNoGuard(s0, task) ==
    R(setCurrentProfileId(Emit(s0, Wr("logout", Undefined)), Undefined),
      [task EXCEPT !.pc = "logout_invalidate"])

logout(s0, task) ==
    LET s == Emit(s0, Wr("logout", Undefined))
    IN  IF s.active = NoConn
            THEN R(s, Goto(task, task.ret))
            ELSE R(setCurrentProfileId(s, Undefined),
                   [task EXCEPT !.pc = "logout_invalidate"])

Logout(t) ==
    /\ CanStart(t)
    /\ Step(t, logout([Cur EXCEPT !.log = StartLog],
                      [Begin(t, "logout", Undefined) EXCEPT !.ret = "done"]))
    /\ calls' = calls + 1
    /\ UNCHANGED <<env, tryAutoConnectOnce>>

\* await this.invalidateConnection(this.activeConnection.id)
LogoutInvalidate(t) ==
    /\ tasks[t].pc = "logout_invalidate"
    /\ Step(t, IF activeConnection = NoConn
                   THEN R(Throw(Cur, "TypeError"), tasks[t])
                   ELSE invalidateConnection(Cur, tasks[t], activeConnection.id,
                                             FALSE, "logout_finish"))
    /\ UNCHANGED <<env, calls, tryAutoConnectOnce>>

\* (a variant that fires the event and keeps the reference)
logoutFinishKeep(s, task) ==
    R(Emit(s, EvActive(NoConn)), Goto(task, task.ret))

logoutFinish(s, task) ==
    R(Emit([s EXCEPT !.active = NoConn], EvActive(NoConn)), Goto(task, task.ret))

LogoutFinish(t) ==
    /\ tasks[t].pc = "logout_finish"
    /\ Step(t, logoutFinish(Cur, tasks[t]))
    /\ UNCHANGED <<env, calls, tryAutoConnectOnce>>

(* ------------------------------------------------------------------ *)
(* deleteConnection                                                   *)
(* ------------------------------------------------------------------ *)
clearStaleLinkedIamConnections(s) ==
    LET s1 == loadIamProfilesIntoStore(s)
    IN  IF s1.active # NoConn /\ s1.store[s1.active.id] = NoProfile
            THEN Emit([s1 EXCEPT !.active = NoConn], EvActive(NoConn))
            ELSE s1

\* (a variant that invalidates the active connection without logout())
deleteConnectionDirect(s, task0, connId) ==
    LET profile == s.store[connId]
        task == [task0 EXCEPT !.sp = profile]
    IN  IF profile # NoProfile
            THEN invalidateConnection(s, task, connId, FALSE, "delete_remove")
            ELSE R(Emit(s, EvDeleted(connId, profile)), Finish(task, "ok"))

\* (a variant without the `if (profile)` guard)
deleteConnectionStrict(s, task0, connId) ==
    LET profile == s.store[connId]
        task == [task0 EXCEPT !.sp = profile]
    IN  IF connId = s.active.id
            THEN logout(s, [task EXCEPT !.ret = "delete_remove"])
            ELSE invalidateConnection(s, task, connId, FALSE, "delete_remove")

\* deleteConnection up to its first await
deleteConnection(s, task0, connId) ==
    LET profile == s.store[connId]
        task == [task0 EXCEPT !.sp = profile]
    IN  IF profile # NoProfile
            THEN IF connId = s.active.id
                     THEN logout(s, [task EXCEPT !.ret = "delete_remove"])
                     ELSE invalidateConnection(s, task, connId, FALSE, "delete_remove")
            ELSE R(Emit(s, EvDeleted(connId, profile)), Finish(task, "ok"))

DeleteConnection(t, id) ==
    /\ CanStart(t)
    /\ Step(t, deleteConnection([Cur EXCEPT !.log = StartLog],
                                Begin(t, "deleteConnection", id), id))
    /\ calls' = calls + 1
    /\ UNCHANGED <<env, tryAutoConnectOnce>>

\* (a variant that does not sweep the linked IAM connections)
deleteRemoveNoSweep(s, task) ==
    R(Emit(deleteProfile(s, task.id), EvDeleted(task.id, task.sp)), Finish(task, "ok"))

\* deleteConnection from store.deleteProfile on
deleteRemove(s, task) ==
    LET s1 == deleteProfile(s, task.id)
        s2 == IF task.sp.type = "sso" THEN clearStaleLinkedIamConnections(s1) ELSE s1
    IN  R(Emit(s2, EvDeleted(task.id, task.sp)), Finish(task, "ok"))

DeleteRemove(t) ==
    /\ tasks[t].pc = "delete_remove"
    /\ Step(t, deleteRemove(Cur, tasks[t]))
    /\ UNCHANGED <<env, calls, tryAutoConnectOnce>>

(* ------------------------------------------------------------------ *)
(* forgetConnection                                                   *)
(* ------------------------------------------------------------------ *)
\* (a variant that forgets a connection the way deleteConnection deletes it)
forgetConnectionInvalidating(s, task0, connId) ==
    deleteConnection(s, task0, connId)

\* Auth.forgetConnection
forgetConnection(s, task0, connId) ==
    LET profile == s.store[connId]
        task == [task0 EXCEPT !.sp = profile]
        r == IF profile # NoProfile
                 THEN deleteRemove(s, task)
                 ELSE R(Emit(s, EvDeleted(connId, profile)), Finish(task, "ok"))
    IN  R(IF r.s.threw = "" THEN setContext(r.s, FALSE) ELSE r.s, r.task)

ForgetConnection(t, id) ==
    /\ CanStart(t)
    /\ Step(t, forgetConnection([Cur EXCEPT !.log = StartLog],
                                Begin(t, "forgetConnection", id), id))
    /\ calls' = calls + 1
    /\ UNCHANGED <<env, tryAutoConnectOnce>>

(* ------------------------------------------------------------------ *)
(* validateConnection, refreshConnectionState, useConnection          *)
(* ------------------------------------------------------------------ *)
\* the catch of validateConnection
validateCatch(s, id, err) ==
    LET s1 == handleSsoTokenError(s, id, err)
    IN  IF s1.threw # "" THEN s1 ELSE updateConnectionState(s1, id, "invalid")

\* runCheck's updateConnectionState under that catch
validateSet(s, id, st) ==
    LET s1 == updateConnectionState(s, id, st)
    IN  IF s1.threw = "" THEN s1 ELSE validateCatch([s1 EXCEPT !.threw = ""], id, s1.threw)

\* (a variant that sets the active connection without firing the event)
useConnectionSilent(s, task) ==
    LET id == task.id
        profile == s.store[id]
        conn == getConnectionFromStoreEntry(id, profile)
    IN  IF s.threw # "" THEN R(s, task)
        ELSE IF profile = NoProfile THEN R(Throw(s, "ConnectionDoesNotExist"), task)
        ELSE LET s2 == setCurrentProfileId([s EXCEPT !.active = conn], id)
             IN  R(setContext(s2, isInternalAmazonUser(s2)),
                   Finish([task EXCEPT !.out = conn], "ok"))

\* useConnection after `await this.refreshConnectionState({ id })`
useConnection(s, task) ==
    LET id == task.id
        profile == s.store[id]
        conn == getConnectionFromStoreEntry(id, profile)
        s1 == Emit([s EXCEPT !.active = conn], EvActive(conn))
    IN  IF s.threw # "" THEN R(s, task)
        ELSE IF profile = NoProfile THEN R(Throw(s, "ConnectionDoesNotExist"), task)
        ELSE LET s2 == setCurrentProfileId(s1, id)
             IN  R(setContext(s2, isInternalAmazonUser(s2)),
                   Return([task EXCEPT !.out = conn], "ok"))

\* validateConnection up to its first await
validateConnection(s, task, id, profile) ==
    IF profile.type = "sso"
        THEN R(Emit(s, Wr("provider.getToken", id)), [task EXCEPT !.pc = "use_getToken"])
    ELSE IF id \in LinkedIds
        THEN IF s.store[ssoSession(id)] = NoProfile
                 THEN useConnection(validateCatch(s, id, "ProfileNotFound"), task)
             ELSE IF s.store[ssoSession(id)].type # "sso"
                 THEN useConnection(validateCatch(s, id, "LinkedNotSso"), task)
             ELSE R(Emit(s, Wr("provider.getToken", ssoSession(id))),
                    [task EXCEPT !.pc = "use_srcToken"])
    ELSE IF id \notin env.providers
        THEN useConnection(validateCatch(s, id, "ProviderNotFound"), task)
    ELSE R(Emit(s, Wr("getCachedCredentials", id)), [task EXCEPT !.pc = "use_creds"])

UseConnection(t, id) ==
    /\ CanStart(t)
    /\ LET s0 == [Cur EXCEPT !.log = StartLog]
           task == Begin(t, "useConnection", id)
       IN  Step(t, IF store[id] = NoProfile
                       THEN useConnection(s0, task)
                       ELSE validateConnection(s0, task, id, store[id]))
    /\ calls' = calls + 1
    /\ UNCHANGED <<env, tryAutoConnectOnce>>

TokenOutcomes == {"token", "none", "NetworkError", "InvalidGrant"}

\* (a variant that treats a missing token as an error of the caller)
validateTokenStrict(s, id, outcome) ==
    IF outcome = "token" THEN validateSet(s, id, "valid")
    ELSE IF outcome = "none" THEN Throw(s, "NoToken")
    ELSE validateCatch(s, id, outcome)

\* validateConnection of an SSO profile after provider.getToken() settled
validateToken(s, id, outcome) ==
    IF outcome = "token" THEN validateSet(s, id, "valid")
    ELSE IF outcome = "none" THEN validateSet(s, id, "invalid")
    ELSE validateCatch(s, id, outcome)

UseAfterGetToken(t, outcome) ==
    /\ tasks[t].pc = "use_getToken"
    /\ LET id == tasks[t].id
           s1 == validateToken(Cur, id, outcome)
       IN  Step(t, useConnection(s1, Saw(tasks[t], outcome)))
    /\ UNCHANGED <<env, calls, tryAutoConnectOnce>>

(* ------------------------------------------------------------------ *)
(* expireConnection                                                   *)
(* ------------------------------------------------------------------ *)
\* expireConnection up to `await provider.invalidate(...)`
expireConnection(s, task, id) ==
    IF s.store[id] = NoProfile THEN R(Throw(s, "ProfileNotFound"), task)
    ELSE IF s.store[id].type = "iam" THEN R(Throw(s, "CannotExpireIam"), task)
    ELSE R(Emit(s, Wr("provider.invalidate", id)), [task EXCEPT !.pc = "expire_invalidate"])

ExpireConnection(t, id) ==
    /\ CanStart(t)
    /\ Step(t, expireConnection([Cur EXCEPT !.log = StartLog],
                                Begin(t, "expireConnection", id), id))
    /\ calls' = calls + 1
    /\ UNCHANGED <<env, tryAutoConnectOnce>>

\* expireConnection after refreshConnectionState returned
expireFinish(s, task) ==
    IF s.threw # "" THEN R(s, task) ELSE R(setContext(s, FALSE), Finish(task, "ok"))

\* refreshConnectionState(conn) up to the token lookup of validateConnection
ExpireRefresh(t) ==
    /\ tasks[t].pc = "expire_invalidate"
    /\ LET id == tasks[t].id
       IN  Step(t, IF store[id] = NoProfile THEN expireFinish(Cur, tasks[t])
                   ELSE R(Emit(Cur, Wr("provider.getToken", id)),
                          [tasks[t] EXCEPT !.pc = "expire_getToken"]))
    /\ UNCHANGED <<env, calls, tryAutoConnectOnce>>

ExpireAfterGetToken(t, outcome) ==
    /\ tasks[t].pc = "expire_getToken"
    /\ Step(t, expireFinish(validateToken(Cur, tasks[t].id, outcome),
                            Saw(tasks[t], outcome)))
    /\ UNCHANGED <<env, calls, tryAutoConnectOnce>>

CredsOutcomes == {"hit", "canAutoConnect", "miss"}

UseAfterCreds(t, outcome) ==
    /\ tasks[t].pc = "use_creds"
    /\ LET id == tasks[t].id
       IN  IF outcome = "canAutoConnect"
               THEN LET s1 == authenticate(Cur, id, FALSE)
                    IN  Step(t, R(s1, [tasks[t] EXCEPT !.pc = "use_auth", !.target = id,
                                          !.joined = pending[id].on,
                                          !.run = s1.pending[id].run]))
               ELSE Step(t, useConnection(
                               validateSet(Cur, id, IF outcome = "hit" THEN "valid"
                                                    ELSE "invalid"),
                               tasks[t]))
    /\ UNCHANGED <<env, calls, tryAutoConnectOnce>>

\* validateConnection of a linked IAM profile after the token lookup of its
\* source: the source is validated under its own catch; the linked profile
\* goes on to its credentials only if the source ended valid.
validateSource(s, id, outcome) ==
    validateToken(s, ssoSession(id), outcome)

\* (a variant that goes on to the linked profile's own credentials whatever
\* the state its source ended in)
UseAfterSourceTokenLenient(t, outcome) ==
    /\ tasks[t].pc = "use_srcToken"
    /\ LET id == tasks[t].id
           s1 == validateSource(Cur, id, outcome)
       IN  IF s1.threw # ""
               THEN Step(t, useConnection(
                               validateCatch([s1 EXCEPT !.threw = ""], id, s1.threw),
                               Saw(tasks[t], outcome)))
               ELSE Step(t, R(Emit(s1, Wr("getCachedCredentials", id)),
                              [Saw(tasks[t], outcome) EXCEPT !.pc = "use_creds"]))
    /\ UNCHANGED <<env, calls, tryAutoConnectOnce>>

UseAfterSourceToken(t, outcome) ==
    /\ tasks[t].pc = "use_srcToken"
    /\ LET id == tasks[t].id
           s1 == validateSource(Cur, id, outcome)
       IN  IF s1.threw # ""
               THEN Step(t, useConnection(
                               validateCatch([s1 EXCEPT !.threw = ""], id, s1.threw),
                               Saw(tasks[t], outcome)))
           ELSE IF outcome = "token"
               THEN Step(t, R(Emit(s1, Wr("getCachedCredentials", id)),
                              [Saw(tasks[t], outcome) EXCEPT !.pc = "use_creds"]))
           ELSE Step(t, useConnection(validateSet(s1, id, "invalid"),
                                      Saw(tasks[t], outcome)))
    /\ UNCHANGED <<env, calls, tryAutoConnectOnce>>

UseAfterAuth(t) ==
    /\ tasks[t].pc = "use_auth"
    /\ tasks[t].authRes # ""
    /\ LET id == tasks[t].id
           s1 == IF tasks[t].authRes # "ok" THEN validateCatch(Cur, id, tasks[t].authRes)
                 ELSE IF store[id] = NoProfile THEN validateCatch(Cur, id, "ProfileNotFound")
                 ELSE Cur
       IN  Step(t, useConnection(s1, tasks[t]))
    /\ UNCHANGED <<env, calls, tryAutoConnectOnce>>

(* ------------------------------------------------------------------ *)
(* createConnection                                                   *)
(* ------------------------------------------------------------------ *)
\* (a variant that rethrows without rolling back)
createRollbackKeep(s, task, err) ==
    R(Throw(s, err), task)

\* the catch block: roll back and rethrow
createRollback(s, task, err) ==
    R(Throw(deleteProfile(s, task.id), err), task)

\* (a variant that persists the profile and does not mark it valid)
createStoreUnmarked(s, task, fault) ==
    LET id == task.id
        s1 == addProfile(s, id, task.profile)
    IN  IF s1.threw # "" \/ fault # "none"
            THEN createRollback([s1 EXCEPT !.threw = ""], task, "StoreError")
            ELSE R(s1, Finish([task EXCEPT !.out = getSsoConnection(id, s1.store[id])],
                              "ok"))

\* the try block after a token was obtained. `fault` names the store call
\* that fails, if one does.
createStore(s, task, fault) ==
    LET id == task.id
        s1 == IF fault = "addProfile" THEN Throw(Emit(s, Failed(id, "StoreError")), "StoreError")
              ELSE addProfile(s, id, task.profile)
        storedProfile == s1.store[id]
        s2 == IF s1.threw # "" THEN s1
              ELSE IF fault = "updateMetadata"
                  THEN Throw(Emit(s1, Failed(id, "StoreError")), "StoreError")
              ELSE updateConnectionState(s1, id, "valid")
    IN  IF s2.threw # ""
            THEN createRollback([s2 EXCEPT !.threw = ""], task, s2.threw)
            ELSE R(s2, Finish([task EXCEPT !.out = getSsoConnection(id, storedProfile)],
                              "ok"))

\* createConnection up to its first await; `id` is the fresh randomUUID()
createConnection(s, task, profile, id) ==
    IF profile.type = "iam"
        THEN R(Throw(s, "UnsupportedOperation"), task)
        ELSE R(Emit(updateConnectionState(s, id, "authenticating"),
                    Wr("provider.getToken", id)),
               [task EXCEPT !.id = id, !.pc = "create_getToken"])

Fresh(id) ==
    /\ id \in SsoIds
    /\ store[id] = NoProfile
    /\ activeConnection.id # id
    /\ \A u \in Tasks : tasks[u].id # id

CreateConnection(t, profile, id) ==
    /\ CanStart(t)
    /\ Fresh(id)
    /\ Step(t, createConnection([Cur EXCEPT !.log = StartLog],
                   [Begin(t, "createConnection", Undefined) EXCEPT !.profile = profile],
                   profile, id))
    /\ calls' = calls + 1
    /\ UNCHANGED <<env, tryAutoConnectOnce>>

StoreFaults == {"none", "addProfile", "updateMetadata"}

CreateAfterGetToken(t, outcome, fault) ==
    /\ tasks[t].pc = "create_getToken"
    /\ Step(t, IF outcome = "token" THEN createStore(Cur, tasks[t], fault)
               ELSE IF outcome = "none"
                   THEN R(Emit(Cur, Wr("provider.createToken", tasks[t].id)),
                          [tasks[t] EXCEPT !.pc = "create_createToken"])
               ELSE createRollback(Emit(Cur, Failed(tasks[t].id, outcome)), tasks[t],
                                   outcome))
    /\ UNCHANGED <<env, calls, tryAutoConnectOnce>>

CreateAfterCreateToken(t, outcome, fault) ==
    /\ tasks[t].pc = "create_createToken"
    /\ Step(t, IF outcome = "ok" THEN createStore(Cur, tasks[t], fault)
               ELSE createRollback(Emit(Cur, Failed(tasks[t].id, outcome)), tasks[t],
                                   outcome))
    /\ UNCHANGED <<env, calls, tryAutoConnectOnce>>

(* ------------------------------------------------------------------ *)
(* updateConnection                                                   *)
(* ------------------------------------------------------------------ *)
\* (a variant that leaves the in-memory active connection as it was)
updateApplyStale(s, task) ==
    LET id == task.id
        s1 == updateProfile(s, id, task.profile)
        updatedConn == getSsoConnection(id, s1.store[id])
    IN  IF s1.threw # "" THEN R(s1, task)
        ELSE R(Emit(s1, EvUpdated(updatedConn)),
               Finish([task EXCEPT !.out = updatedConn], "ok"))

\* updateConnection from store.updateProfile on
updateApply(s, task) ==
    LET id == task.id
        s1 == updateProfile(s, id, task.profile)
        updatedConn == getSsoConnection(id, s1.store[id])
        s2 == IF s1.active.id = updatedConn.id
                  THEN Emit([s1 EXCEPT !.active = updatedConn], EvActive(updatedConn))
                  ELSE s1
    IN  IF s1.threw # "" THEN R(s1, task)
        ELSE R(Emit(s2, EvUpdated(updatedConn)),
               Finish([task EXCEPT !.out = updatedConn], "ok"))

\* updateConnection up to its first await
updateConnectionLate(s, task, id, profile, invalidate) ==
    IF invalidate
        THEN invalidateConnection(s, task, id, TRUE, "update_apply")
    ELSE IF profile.type = "iam"
        THEN R(Throw(s, "UnsupportedOperation"), task)
    ELSE updateApply(s, task)

updateConnection(s, task, id, profile, invalidate) ==
    IF profile.type = "iam"
        THEN R(Throw(s, "UnsupportedOperation"), task)
    ELSE IF invalidate
        THEN invalidateConnection(s, task, id, TRUE, "update_apply")
    ELSE updateApply(s, task)

\* (the record of the call keeps its `invalidate` argument in val)
UpdateConnection(t, id, profile, invalidate) ==
    /\ CanStart(t)
    /\ LET task == [Begin(t, "updateConnection", id) EXCEPT !.profile = profile,
                       !.val = IF invalidate THEN "invalidate" ELSE "-"]
       IN  Step(t, updateConnection([Cur EXCEPT !.log = StartLog], task, id, profile,
                                    invalidate))
    /\ calls' = calls + 1
    /\ UNCHANGED <<env, tryAutoConnectOnce>>

UpdateApply(t) ==
    /\ tasks[t].pc = "update_apply"
    /\ Step(t, updateApply(Cur, tasks[t]))
    /\ UNCHANGED <<env, calls, tryAutoConnectOnce>>

(* ------------------------------------------------------------------ *)
(* listConnections, getConnection                                     *)
(* ------------------------------------------------------------------ *)
\* the connections listConnections returns from the (reloaded) store
listConnections(s) ==
    {getConnectionFromStoreEntry(i, s.store[i]) : i \in {j \in AllIds : s.store[j] # NoProfile}}

find(connections, id) ==
    IF \E c \in connections : c.id = id
        THEN CHOOSE c \in connections : c.id = id
        ELSE NoConn

getConnection(s, task) ==
    LET s1 == loadIamProfilesIntoStore(s)
    IN  R(s1, Finish([task EXCEPT !.out = find(listConnections(s1), task.id)], "ok"))

GetConnection(t, id) ==
    /\ CanStart(t)
    /\ Step(t, getConnection([Cur EXCEPT !.log = StartLog], Begin(t, "getConnection", id)))
    /\ calls' = calls + 1
    /\ UNCHANGED <<env, tryAutoConnectOnce>>

(* ------------------------------------------------------------------ *)
(* connection.getToken(): getToken = keyedDebounce(_getToken), and    *)
(* handleInvalidCredentials                                           *)
(* ------------------------------------------------------------------ *)
\* the race of the prompt against the 60 s timer, and the authenticate call
handleInvalidPrompt(s1, task, id) ==
    R(Emit(Emit([s1 EXCEPT !.timers = @ \cup {id}], Wr("timeout", id)),
           Wr("prompt", id)),
      [task EXCEPT !.pc = "tok_prompt"])

handleInvalidAuthenticate(s1, task, id) ==
    LET s2 == authenticate(s1, id, FALSE)
    IN  R(s2, [task EXCEPT !.pc = "tok_auth", !.target = id,
                  !.joined = s1.pending[id].on, !.run = s2.pending[id].run])

\* (a variant that prompts also for a connection that was already invalid)
handleInvalidCredentialsAgain(s0, task, id) ==
    LET s == Emit(s0, Wr("handleInvalidCredentials", id))
    IN  IF s.store[id] = NoProfile
            THEN R(Throw(Emit(s, EvDeleted(id, NoProfile)), "ProfileNotFound"), task)
        ELSE LET previousState == s.store[id].connectionState
                 s1 == updateConnectionState(s, id, "invalid")
             IN  IF previousState \in {"valid", "invalid"}
                     THEN handleInvalidPrompt(s1, task, id)
                     ELSE handleInvalidAuthenticate(s1, task, id)

\* (a variant that does not demote the connection before it prompts)
handleInvalidCredentialsNoDemote(s0, task, id) ==
    LET s == Emit(s0, Wr("handleInvalidCredentials", id))
    IN  IF s.store[id] = NoProfile
            THEN R(Throw(Emit(s, EvDeleted(id, NoProfile)), "ProfileNotFound"), task)
        ELSE IF s.store[id].connectionState = "invalid"
            THEN R(Throw(s, "InvalidConnection"), task)
        ELSE IF s.store[id].connectionState = "valid"
            THEN handleInvalidPrompt(s, task, id)
        ELSE handleInvalidAuthenticate(s, task, id)

\* (a variant that does not delete the connection of a profile that is gone)
handleInvalidCredentialsNoDelete(s0, task, id) ==
    LET s == Emit(s0, Wr("handleInvalidCredentials", id))
    IN  IF s.store[id] = NoProfile THEN R(Throw(s, "ProfileNotFound"), task)
        ELSE LET previousState == s.store[id].connectionState
                 s1 == updateConnectionState(s, id, "invalid")
             IN  IF previousState = "invalid" THEN R(Throw(s1, "InvalidConnection"), task)
                 ELSE IF previousState = "valid" THEN handleInvalidPrompt(s1, task, id)
                 ELSE handleInvalidAuthenticate(s1, task, id)

\* (a variant that prompts whenever the connection was not already invalid)
handleInvalidCredentialsPromptFirst(s0, task, id) ==
    LET s == Emit(s0, Wr("handleInvalidCredentials", id))
    IN  IF s.store[id] = NoProfile
            THEN R(Throw(Emit(s, EvDeleted(id, NoProfile)), "ProfileNotFound"), task)
        ELSE LET previousState == s.store[id].connectionState
                 s1 == updateConnectionState(s, id, "invalid")
             IN  IF previousState = "invalid" THEN R(Throw(s1, "InvalidConnection"), task)
                 ELSE handleInvalidPrompt(s1, task, id)

\* handleInvalidCredentials(id, refresh) up to its first await
handleInvalidCredentials(s0, task, id) ==
    LET s == Emit(s0, Wr("handleInvalidCredentials", id))
    IN
    IF s.store[id] = NoProfile
        THEN R(Throw(Emit(s, EvDeleted(id, NoProfile)), "ProfileNotFound"), task)
    ELSE LET previousState == s.store[id].connectionState
             s1 == updateConnectionState(s, id, "invalid")
         IN  IF s1.threw # "" THEN R(s1, task)
             ELSE IF previousState = "invalid"
                 THEN R(Throw(s1, "InvalidConnection"), task)
             ELSE IF previousState = "valid"
                 THEN handleInvalidPrompt(s1, task, id)
             ELSE handleInvalidAuthenticate(s1, task, id)

\* connection.getToken(), for a Connection object obtained earlier for `id`
GetToken(t, id) ==
    /\ CanStart(t)
    /\ Step(t, R(Emit([Cur EXCEPT !.log = StartLog], Wr("provider.getToken", id)),
                 [Begin(t, "getToken", id) EXCEPT !.pc = "tok_get"]))
    /\ calls' = calls + 1
    /\ UNCHANGED <<env, tryAutoConnectOnce>>

\* _getToken after provider.getToken() settled
\* variant: a network or disk-cache error of the cached-token lookup is
\* recorded and handled like any other error
getTokenAfterRecording(s, task, outcome) ==
    IF outcome = "token" THEN R(s, Finish([task EXCEPT !.val = "cached"], "ok"))
    ELSE IF outcome = "none" THEN handleInvalidCredentials(s, task, task.id)
    ELSE handleInvalidCredentials([s EXCEPT !.errs = @ \cup {task.id}], task, task.id)

getTokenAfter(s, task, outcome) ==
    IF outcome = "token" THEN R(s, Finish([task EXCEPT !.val = "cached"], "ok"))
    ELSE IF outcome = "none" THEN handleInvalidCredentials(s, task, task.id)
    ELSE IF Recoverable(outcome) THEN R(Throw(s, ToolkitError(outcome)), task)
    ELSE handleInvalidCredentials([s EXCEPT !.errs = @ \cup {task.id}], task, task.id)

GetTokenAfter(t, outcome) ==
    /\ tasks[t].pc = "tok_get"
    /\ Step(t, getTokenAfter(Cur, Saw(tasks[t], outcome), outcome))
    /\ UNCHANGED <<env, calls, tryAutoConnectOnce>>

\* What the race between the prompt and the 60 s timer yields: the button
\* pressed, nothing (the prompt was dismissed), or the timer's expiry.
PromptResponses == {"login", "no", "dismissed", "timeout"}

\* (a variant that authenticates whatever the answer)
promptAfterAlways(s, task, resp) ==
    handleInvalidAuthenticate(Emit(s, Entry("prompt.response", task.id, resp)),
                              task, task.id)

\* handleInvalidCredentials after the race
promptAfter(s, task, resp) ==
    LET s0 == Emit(s, Entry("prompt.response", task.id, resp))
        s1 == IF resp = "timeout" THEN [s0 EXCEPT !.timers = @ \ {task.id}] ELSE s0
    IN  IF resp # "login" THEN R(Throw(s1, "UserCancelled"), task)
        ELSE handleInvalidAuthenticate(s1, task, task.id)

PromptAfter(t, resp) ==
    /\ tasks[t].pc = "tok_prompt"
    /\ resp = "timeout" => tasks[t].id \in invalidCredentialsTimeouts
    /\ Step(t, promptAfter(Cur, tasks[t], resp))
    /\ UNCHANGED <<env, calls, tryAutoConnectOnce>>

\* handleInvalidCredentials returns what authenticate resolved to
GetTokenReturn(t) ==
    /\ tasks[t].pc = "tok_auth"
    /\ tasks[t].authRes # ""
    /\ SetTask(t, Finish(tasks[t], tasks[t].authRes))
    /\ UNCHANGED <<store, currentProfileId, activeConnection, validationErrors,
                   pending, log, env, calls, invalidCredentialsTimeouts,
                   tryAutoConnectOnce, isInternalUser, composerVars>>

\* The stored profiles whose projection into a Connection can fail (the
\* token provider or the label of a damaged profile cannot be built).
ProjectionFaults == SUBSET {"uuid-1", "profile:default"}

\* (a variant that leaves out the profiles whose projection fails)
listConnectionsSkipping(s, task) ==
    LET s1 == loadIamProfilesIntoStore(s)
        ok == {c \in listConnections(s1) : c.id \notin task.faults}
    IN  R(s1, Finish([task EXCEPT !.list = ok], "ok"))

\* listConnections(): Promise.all over the projections of the stored
\* profiles; task.faults are the ids whose projection fails
listConnectionsAll(s, task) ==
    LET s1 == loadIamProfilesIntoStore(s)
        all == listConnections(s1)
    IN  IF \E c \in all : c.id \in task.faults
            THEN R(Throw(s1, "ProjectionError"), task)
            ELSE R(s1, Finish([task EXCEPT !.list = all], "ok"))

ListConnections(t, faults) ==
    /\ CanStart(t)
    /\ Step(t, listConnectionsAll([Cur EXCEPT !.log = StartLog],
                   [Begin(t, "listConnections", Undefined) EXCEPT !.faults = faults]))
    /\ calls' = calls + 1
    /\ UNCHANGED <<env, tryAutoConnectOnce>>

(* ------------------------------------------------------------------ *)
(* reauthenticate                                                     *)
(* ------------------------------------------------------------------ *)
Reauthenticate(t, id, invalidate) ==
    /\ CanStart(t)
    /\ LET task == Begin(t, "reauthenticate", id)
           s0 == [Cur EXCEPT !.log = StartLog]
       IN  IF store[id] = NoProfile
               THEN /\ SetTask(t, Finish(task, "ProfileNotFound"))
                    /\ Commit(s0)
           ELSE IF store[id].type = "iam" /\ id \notin env.providers
               THEN /\ SetTask(t, Finish(task, "ProviderNotFound"))
                    /\ Commit(s0)
           ELSE LET s1 == authenticate(s0, id, invalidate)
                IN  /\ SetTask(t, [task EXCEPT !.pc = "reauth_await", !.target = id,
                                       !.sp = store[id], !.flag = invalidate,
                                       !.joined = pending[id].on,
                                       !.run = s1.pending[id].run])
                    /\ Commit(s1)
    /\ calls' = calls + 1
    /\ UNCHANGED <<env, tryAutoConnectOnce>>

ReauthenticateReturn(t) ==
    /\ tasks[t].pc = "reauth_await"
    /\ tasks[t].authRes # ""
    /\ SetTask(t, IF tasks[t].authRes = "ok"
                      THEN [Finish(tasks[t], "ok") EXCEPT
                               !.out = getConnectionFromStoreEntry(tasks[t].id, tasks[t].sp)]
                      ELSE Finish(tasks[t], tasks[t].authRes))
    /\ UNCHANGED <<store, currentProfileId, activeConnection, validationErrors,
                   pending, log, env, calls, invalidCredentialsTimeouts,
                   tryAutoConnectOnce, isInternalUser, composerVars>>

NextAuth ==
    \/ \E t \in Tasks, id \in Ids, inv \in BOOLEAN : Reauthenticate(t, id, inv)
    \/ \E t \in Tasks : ReauthenticateReturn(t)
    \/ \E id \in Ids, outcome \in {"ok"} \cup CallbackErrors, val \in Tokens :
          AuthenticateSettle(id, outcome, val)

\* Overlapping reauthenticate calls; the pointer and the token policy play
\* no part in them.
InitAuth == Init /\ currentProfileId = Undefined /\ env.dropTokens

SpecAuth == InitAuth /\ [][NextAuth]_vars

\* The same calls for one connection, with a callback that terminates and
\* callers that are resumed once their run has settled.
NextLive ==
    \/ \E t \in Tasks, inv \in BOOLEAN : Reauthenticate(t, "uuid-1", inv)
    \/ \E t \in Tasks : ReauthenticateReturn(t)
    \/ \E outcome \in {"ok"} \cup CallbackErrors :
          AuthenticateSettle("uuid-1", outcome, "token-1")

SpecLive ==
    /\ InitAuth
    /\ [][NextLive]_vars
    /\ WF_vars(\E outcome \in {"ok"} \cup CallbackErrors :
                  AuthenticateSettle("uuid-1", outcome, "token-1"))
    /\ WF_vars(\E t \in Tasks : ReauthenticateReturn(t))

(* ------------------------------------------------------------------ *)
(* Calls made one at a time                                           *)
(* ------------------------------------------------------------------ *)
Next ==
    \E t \in {1} :
        \/ \E id \in Ids : UseConnection(t, id)
        \/ \E o \in TokenOutcomes : UseAfterGetToken(t, o)
        \/ \E o \in CredsOutcomes : UseAfterCreds(t, o)
        \/ UseAfterAuth(t)
        \/ \E id \in Ids, o \in {"ok"} \cup CallbackErrors, val \in Tokens :
              AuthenticateSettle(id, o, val)
        \/ Logout(t)
        \/ LogoutInvalidate(t)
        \/ InvalidateAfterLogout(t)
        \/ InvalidateAfterToken(t)
        \/ LogoutFinish(t)
        \/ \E id \in Ids : DeleteConnection(t, id)
        \/ DeleteRemove(t)
        \/ \E p \in Profiles, id \in SsoIds : CreateConnection(t, p, id)
        \/ \E o \in {"token", "none", "NetworkError"}, f \in StoreFaults :
              CreateAfterGetToken(t, o, f)
        \/ \E o \in {"ok"} \cup CallbackErrors, f \in StoreFaults :
              CreateAfterCreateToken(t, o, f)
        \/ \E id \in SsoIds, p \in Profiles, inv \in BOOLEAN : UpdateConnection(t, id, p, inv)
        \/ UpdateApply(t)
        \/ \E id \in Ids : GetConnection(t, id)

Spec == Init /\ [][Next]_vars

\* The Application Composer manager on its own, next to an idle Auth.
InitComposer ==
    /\ Init
    /\ \A i \in AllIds : store[i] = NoProfile
    /\ currentProfileId = Undefined
    /\ env = [dropTokens |-> FALSE, providers |-> {}, sagemaker |-> FALSE]

SpecComposer == InitComposer /\ [][NextComposer]_vars

(* ------------------------------------------------------------------ *)
(* Calls made one at a time over a store that holds an IAM profile    *)
(* linked to the SSO connection "uuid-1"                              *)
(* ------------------------------------------------------------------ *)
LinkedId == CHOOSE i \in LinkedIds : TRUE

InitLinked ==
    /\ \E s1 \in {Stored(InitProfile, st) : st \in PersistedStates},
          l1 \in {NoProfile} \cup {Stored(IamProfile, st) : st \in PersistedStates},
          i1 \in {NoProfile, Stored(IamProfile, "valid")} :
          store = [i \in AllIds |->
                      IF i = "uuid-1" THEN s1
                      ELSE IF i \in LinkedIds THEN l1
                      ELSE IF i \in IamIds THEN i1
                      ELSE NoProfile]
    /\ currentProfileId \in {Undefined, "uuid-1"}
    /\ activeConnection = NoConn
    /\ validationErrors = {}
    /\ invalidCredentialsTimeouts = {}
    /\ tryAutoConnectOnce = "none"
    /\ isInternalUser = FALSE
    /\ ComposerInit
    /\ pending = [i \in AllIds |-> NoRun]
    /\ log = <<>>
    /\ tasks = [t \in Tasks |-> IdleTask]
    /\ env \in [dropTokens : BOOLEAN, providers : SUBSET IamIds, sagemaker : {FALSE}]
    /\ calls = 0

NextLinked ==
    \E t \in {1} :
        \/ \E id \in {"uuid-1", LinkedId, "profile:default"} : UseConnection(t, id)
        \/ \E o \in TokenOutcomes : UseAfterGetToken(t, o)
        \/ \E o \in TokenOutcomes : UseAfterSourceToken(t, o)
        \/ \E o \in CredsOutcomes : UseAfterCreds(t, o)
        \/ UseAfterAuth(t)
        \/ \E id \in AllIds, o \in {"ok"} \cup CallbackErrors, val \in Tokens :
              AuthenticateSettle(id, o, val)
        \/ LogoutInvalidate(t)
        \/ InvalidateAfterLogout(t)
        \/ InvalidateAfterToken(t)
        \/ LogoutFinish(t)
        \/ \E id \in {"uuid-1", LinkedId, "profile:default"} : DeleteConnection(t, id)
        \/ DeleteRemove(t)
        \/ \E id \in {"uuid-1", LinkedId, "profile:default"} : ForgetConnection(t, id)
        \/ \E f \in ProjectionFaults : ListConnections(t, f)

SpecLinked == InitLinked /\ [][NextLinked]_vars

\* The operations that set and clear the active connection, one at a time,
\* from a session that has no current profile yet.
InitActive == InitLinked /\ currentProfileId = Undefined

NextActive ==
    \/ NextLinked
    \/ \E t \in {1} : Logout(t)

SpecActive == InitActive /\ [][NextActive]_vars

\* The operations that set the context key 'aws.isInternalUser' or change the
\* active connection, one at a time; uuid-1 is declared with the internal
\* start URL, written in one of the ways a user can enter it.
InternalUrls ==
    {internalStartUrl, "https://amzn.awsapps.com/start/", "https://amzn.awsapps.com/start/#"}

InitFlag ==
    /\ \E u \in InternalUrls, a \in PersistedStates :
          store = [i \in AllIds |->
                      IF i = "uuid-1"
                          THEN Stored([InitProfile EXCEPT !.startUrl = u], a)
                      ELSE IF i = "uuid-2" THEN Stored(OtherProfile, "valid")
                      ELSE IF i \in IamIds THEN Stored(IamProfile, "valid")
                      ELSE NoProfile]
    /\ currentProfileId = Undefined
    /\ activeConnection = NoConn
    /\ validationErrors = {}
    /\ invalidCredentialsTimeouts = {}
    /\ tryAutoConnectOnce = "none"
    /\ isInternalUser = FALSE
    /\ ComposerInit
    /\ pending = [i \in AllIds |-> NoRun]
    /\ log = <<>>
    /\ tasks = [t \in Tasks |-> IdleTask]
    /\ env \in [dropTokens : BOOLEAN, providers : {IamIds}, sagemaker : {FALSE}]
    /\ calls = 0

NextFlag ==
    \E t \in {1} :
        \/ \E id \in Ids : UseConnection(t, id)
        \/ \E o \in TokenOutcomes : UseAfterGetToken(t, o)
        \/ \E o \in CredsOutcomes : UseAfterCreds(t, o)
        \/ UseAfterAuth(t)
        \/ \E id \in Ids, o \in {"ok"} \cup CallbackErrors :
              AuthenticateSettle(id, o, "token-1")
        \/ Logout(t)
        \/ LogoutInvalidate(t)
        \/ InvalidateAfterLogout(t)
        \/ InvalidateAfterToken(t)
        \/ LogoutFinish(t)
        \/ \E id \in Ids : DeleteConnection(t, id)
        \/ DeleteRemove(t)
        \/ \E id \in Ids : ForgetConnection(t, id)
        \/ \E id \in Ids : ExpireConnection(t, id)
        \/ ExpireRefresh(t)
        \/ \E o \in TokenOutcomes \ {"token"} : ExpireAfterGetToken(t, o)

SpecFlag == InitFlag /\ [][NextFlag]_vars

(* ------------------------------------------------------------------ *)
(* Token retrieval, revalidation and re-authentication, one call at a *)
(* time                                                               *)
(* ------------------------------------------------------------------ *)
InfraOutcomes == TokenOutcomes \cup {"DiskCacheError"}

NextToken ==
    \E t \in {1} :
        \/ \E id \in SsoIds : GetToken(t, id)
        \/ \E o \in InfraOutcomes : GetTokenAfter(t, o)
        \/ \E r \in PromptResponses : PromptAfter(t, r)
        \/ GetTokenReturn(t)
        \/ \E id \in Ids, o \in {"ok"} \cup CallbackErrors \cup {"DiskCacheError"},
              val \in Tokens : AuthenticateSettle(id, o, val)
        \/ \E id \in Ids : UseConnection(t, id)
        \/ \E o \in InfraOutcomes : UseAfterGetToken(t, o)
        \/ \E o \in CredsOutcomes : UseAfterCreds(t, o)
        \/ UseAfterAuth(t)
        \/ \E id \in Ids, inv \in BOOLEAN : Reauthenticate(t, id, inv)
        \/ ReauthenticateReturn(t)

SpecToken == Init /\ [][NextToken]_vars

(* ------------------------------------------------------------------ *)
(* tryAutoConnect = once(_tryAutoConnect)                             *)
(* ------------------------------------------------------------------ *)
\* the implicit sources in the order they are tried; the host-specific
\* source comes last, where hasVendedIamCredentials() && isSageMaker()
ImplicitSources ==
    <<ec2ProfileId, ecsProfileId, legacyProfile>> \o
        (IF env.sagemaker THEN <<sagemakerProfileId>> ELSE <<>>)

SourceIndex(id) == CHOOSE k \in 1..Len(ImplicitSources) : ImplicitSources[k] = id

\* `await this.useConnection({ id })` inside a try: the call goes on at `ret`
\* when useConnection returns and at `catch` when it throws
nestedUseConnection(s, task0, id, ret, catch) ==
    LET task == [task0 EXCEPT !.id = id, !.ret = ret, !.catch = catch]
    IN  IF s.store[id] = NoProfile THEN useConnection(s, task)
        ELSE validateConnection(s, task, id, s.store[id])

RECURSIVE tryConnections(_, _, _)
\* tryConnection for the k-th source and the ones after it, up to the next
\* await of a useConnection: a source with no connection yields false and
\* the next one is tried
tryConnections(s, task, k) ==
    IF k > Len(ImplicitSources) THEN R(s, Finish(task, "ok"))
    ELSE LET id == ImplicitSources[k]
             s1 == loadIamProfilesIntoStore(Emit(s, Wr("tryConnection", id)))
             conn == find(listConnections(s1), id)
         IN  IF conn = NoConn
                 THEN tryConnections(Emit(s1, Entry("tryConnection.result", id, "false")),
                                     task, k + 1)
                 ELSE nestedUseConnection(s1, task, id, "auto_true", "auto_false")

\* (a variant that adopts the first source that resolves and stops)
tryConnectionAfterAdopting(s, task, result) ==
    LET id == task.id
        s1 == Emit(s, Entry("tryConnection.result", id, result))
    IN  IF result = "true"
            THEN R(IF id = legacyProfile
                       THEN Emit(s1, Wr("CredentialsSettings.delete", id))
                       ELSE s1,
                   Finish(task, "ok"))
            ELSE tryConnections(s1, task, SourceIndex(id) + 1)

\* after the useConnection of tryConnection settled: the legacy setting is
\* deleted once consumed, and the loop goes on to the next source
tryConnectionAfter(s, task, result) ==
    LET id == task.id
        s1 == Emit(s, Entry("tryConnection.result", id, result))
        s2 == IF result = "true" /\ id = legacyProfile
                  THEN Emit(s1, Wr("CredentialsSettings.delete", id))
                  ELSE s1
    IN  tryConnections(s2, task, SourceIndex(id) + 1)

\* restorePreviousSession up to the await of useConnection
restorePreviousSession(s, task) ==
    LET id == s.cur
        s1 == Emit(s, Wr("restorePreviousSession", id))
    IN  IF id = Undefined THEN R(s1, [task EXCEPT !.pc = "auto_sources"])
        ELSE nestedUseConnection(s1, task, id, "auto_restored", "auto_sources")

RECURSIVE clearAuthenticating(_, _)
\* store.updateMetadata(id, { connectionState: 'invalid' }) for every id of
\* `ids`
clearAuthenticating(s, ids) ==
    IF ids = {} THEN s
    ELSE LET id == CHOOSE i \in ids : TRUE
         IN  clearAuthenticating(updateMetadata(s, id, "invalid"), ids \ {id})

\* the stored profiles whose state is 'authenticating'
Authenticating(st) ==
    {i \in AllIds : st[i] # NoProfile /\ st[i].connectionState = "authenticating"}

\* (a variant that does not clear the profiles stuck in 'authenticating')
tryAutoConnectBodyNoClear(s0, task0) ==
    LET s == Emit(s0, Wr("_tryAutoConnect", Undefined))
        task == [task0 EXCEPT !.list = Authenticating(s.store)]
    IN  IF s.active # NoConn THEN R(s, Finish(task, "ok"))
        ELSE restorePreviousSession(s, task)

\* _tryAutoConnect up to its first await of a useConnection (outside a
\* CodeCatalyst dev environment)
tryAutoConnectBody(s0, task0) ==
    LET s == Emit(s0, Wr("_tryAutoConnect", Undefined))
        task == [task0 EXCEPT !.list = Authenticating(s.store)]
    IN  IF s.active # NoConn THEN R(s, Finish(task, "ok"))
        ELSE restorePreviousSession(clearAuthenticating(s, task.list), task)

\* (a variant that runs the body on every call)
tryAutoConnectEveryCall(s, task, memo) ==
    tryAutoConnectBody(s, task)

\* once(...): the first call runs the body; a later call awaits the promise
\* of the first
tryAutoConnect(s, task, memo) ==
    IF memo = "none" THEN tryAutoConnectBody(s, task)
    ELSE R(s, [task EXCEPT !.pc = "auto_wait", !.joined = TRUE])

\* the memo after a step of the call in slot t
Memo(t) ==
    IF tasks'[t].pc = "auto_wait" THEN tryAutoConnectOnce
    ELSE IF tasks'[t].pc = "done" THEN "ok"
    ELSE "running"

TryAutoConnect(t) ==
    /\ CanStart(t)
    /\ Step(t, tryAutoConnect([Cur EXCEPT !.log = StartLog],
                              Begin(t, "tryAutoConnect", Undefined), tryAutoConnectOnce))
    /\ tryAutoConnectOnce' = Memo(t)
    /\ calls' = calls + 1
    /\ UNCHANGED env

\* a later call receives what the promise of the first call settled with
TryAutoConnectJoin(t) ==
    /\ tasks[t].pc = "auto_wait"
    /\ tryAutoConnectOnce \notin {"none", "running"}
    /\ Step(t, R(Cur, Finish(tasks[t], tryAutoConnectOnce)))
    /\ UNCHANGED <<env, calls, tryAutoConnectOnce>>

\* `if (conn !== undefined) return`
TryAutoConnectRestored(t) ==
    /\ tasks[t].pc = "auto_restored"
    /\ Step(t, R(Cur, Finish(tasks[t], "ok")))
    /\ tryAutoConnectOnce' = Memo(t)
    /\ UNCHANGED <<env, calls>>

\* the previous session was not restored: loadIamProfilesIntoStore and the
\* loop over the implicit sources
TryAutoConnectSources(t) ==
    /\ tasks[t].pc = "auto_sources"
    /\ Step(t, tryConnections(loadIamProfilesIntoStore(Cur), tasks[t], 1))
    /\ tryAutoConnectOnce' = Memo(t)
    /\ UNCHANGED <<env, calls>>

TryConnectionAfter(t) ==
    /\ tasks[t].pc \in {"auto_true", "auto_false"}
    /\ Step(t, tryConnectionAfter(Cur, tasks[t],
                                  IF tasks[t].pc = "auto_true" THEN "true" ELSE "false"))
    /\ tryAutoConnectOnce' = Memo(t)
    /\ UNCHANGED <<env, calls>>

(* ------------------------------------------------------------------ *)
(* Start-up: tryAutoConnect over a store persisted by an earlier      *)
(* session, possibly one that was closed during an authentication     *)
(* ------------------------------------------------------------------ *)
StartupStates == {"valid", "authenticating"}

\* the credentials providers the environment may offer at start-up
StartupProviders == ProviderIds \ TempIds

InitAuto ==
    /\ \E s1 \in {NoProfile} \cup {Stored(InitProfile, st) : st \in StartupStates},
          i1 \in {NoProfile, Stored(IamProfile, "valid")} :
          store = [i \in AllIds |->
                      IF i = "uuid-1" THEN s1
                      ELSE IF i \in IamIds THEN i1
                      ELSE NoProfile]
    /\ currentProfileId \in {Undefined, "uuid-1"}
    /\ activeConnection = NoConn
    /\ validationErrors = {}
    /\ invalidCredentialsTimeouts = {}
    /\ tryAutoConnectOnce = "none"
    /\ isInternalUser = FALSE
    /\ ComposerInit
    /\ pending = [i \in AllIds |-> NoRun]
    /\ log = <<>>
    /\ tasks = [t \in Tasks |-> IdleTask]
    /\ env \in [dropTokens : {FALSE}, providers : SUBSET StartupProviders,
                 sagemaker : BOOLEAN]
    /\ calls = 0

NextAuto ==
    \E t \in {1} :
        \/ TryAutoConnect(t)
        \/ TryAutoConnectJoin(t)
        \/ TryAutoConnectRestored(t)
        \/ TryAutoConnectSources(t)
        \/ TryConnectionAfter(t)
        \/ /\ Quiescent
           /\ tryAutoConnectOnce = "none"
           /\ UseConnection(t, "profile:default")
        \/ \E o \in TokenOutcomes : UseAfterGetToken(t, o)
        \/ \E o \in CredsOutcomes : UseAfterCreds(t, o)
        \/ UseAfterAuth(t)
        \/ \E id \in AllIds, o \in {"ok", "NetworkError"} :
              AuthenticateSettle(id, o, "token-1")

SpecAuto == InitAuto /\ [][NextAuto]_vars

(* ------------------------------------------------------------------ *)
(* Start-up with overlapping calls of tryAutoConnect, on a host that  *)
(* offers at most the instance role                                   *)
(* ------------------------------------------------------------------ *)
InitOnce ==
    /\ InitAuto
    /\ env.providers \subseteq {ec2ProfileId}
    /\ ~env.sagemaker

NextOnce ==
    \E t \in Tasks :
        \/ TryAutoConnect(t)
        \/ TryAutoConnectJoin(t)
        \/ TryAutoConnectRestored(t)
        \/ TryAutoConnectSources(t)
        \/ TryConnectionAfter(t)
        \/ \E o \in TokenOutcomes : UseAfterGetToken(t, o)
        \/ \E o \in CredsOutcomes : UseAfterCreds(t, o)
        \/ UseAfterAuth(t)
        \/ \E id \in AllIds, o \in {"ok", "NetworkError"} :
              AuthenticateSettle(id, o, "token-1")

SpecOnce == InitOnce /\ [][NextOnce]_vars

\* logout() and useConnection overlapping, in a session that has uuid-1 in use
\* and a second SSO connection stored.

InitRace ==
    /\ \E a \in PersistedStates, b \in PersistedStates :
          store = [i \in AllIds |->
                      IF i = "uuid-1" THEN Stored(InitProfile, a)
                      ELSE IF i = "uuid-2" THEN Stored(OtherProfile, b)
                      ELSE NoProfile]
    /\ currentProfileId = "uuid-1"
    /\ activeConnection = getSsoConnection("uuid-1", store["uuid-1"])
    /\ validationErrors = {}
    /\ invalidCredentialsTimeouts = {}
    /\ tryAutoConnectOnce = "none"
    /\ isInternalUser = FALSE
    /\ ComposerInit
    /\ pending = [i \in AllIds |-> NoRun]
    /\ log = <<>>
    /\ tasks = [t \in Tasks |-> IdleTask]
    /\ env \in [dropTokens : BOOLEAN, providers : {{}}, sagemaker : {FALSE}]
    /\ calls = 0

NextRace ==
    \E t \in Tasks :
        \/ Logout(t)
        \/ LogoutInvalidate(t)
        \/ InvalidateAfterLogout(t)
        \/ InvalidateAfterToken(t)
        \/ LogoutFinish(t)
        \/ \E id \in SsoIds : UseConnection(t, id)
        \/ \E o \in TokenOutcomes : UseAfterGetToken(t, o)

SpecRace == InitRace /\ [][NextRace]_vars

(* ------------------------------------------------------------------ *)
(* getToken and getCredentials = keyedDebounce(_getToken),            *)
(* keyedDebounce(_getCredentials): overlapping calls                  *)
(* ------------------------------------------------------------------ *)
FetchOps == {"getToken", "getCredentials"}
FetchPcs == {"tok_get", "cred_get", "tok_prompt", "tok_auth"}

\* the call that runs _getToken / _getCredentials for the key `id`
FetchRun(op, id) ==
    {u \in Tasks : tasks[u].op = op /\ tasks[u].id = id /\ tasks[u].pc \in FetchPcs}

\* a run has settled and a caller attached to it has not yet received its
\* outcome (the continuations of a settled promise run before any new call)
FetchSettling ==
    \E u \in Tasks : tasks[u].pc = "fetch_join" /\ FetchRun(tasks[u].op, tasks[u].id) = {}

\* connection.getCredentials(), for a Connection object obtained earlier
GetCredentials(t, id) ==
    /\ CanStart(t)
    /\ Step(t, R(Emit([Cur EXCEPT !.log = StartLog], Wr("getCachedCredentials", id)),
                 [Begin(t, "getCredentials", id) EXCEPT !.pc = "cred_get"]))
    /\ calls' = calls + 1
    /\ UNCHANGED <<env, tryAutoConnectOnce>>

\* _getCredentials after the cache lookup (and canAutoConnect) settled
getCredentialsAfter(s, task, outcome) ==
    IF outcome = "hit" THEN R(s, Finish([task EXCEPT !.val = "cached"], "ok"))
    ELSE IF outcome = "canAutoConnect"
        THEN R(Emit(s, Wr("createCachedCredentials", task.id)),
               Finish([task EXCEPT !.val = "created"], "ok"))
    ELSE handleInvalidCredentials(s, task, task.id)

GetCredentialsAfter(t, outcome) ==
    /\ tasks[t].pc = "cred_get"
    /\ Step(t, getCredentialsAfter(Cur, Saw(tasks[t], outcome), outcome))
    /\ UNCHANGED <<env, calls, tryAutoConnectOnce>>

\* (a variant in which every call runs the function itself)
FetchJoinNoDebounce(t, op, id) ==
    /\ ~FetchSettling
    /\ FetchRun(op, id) # {}
    /\ IF op = "getToken" THEN GetToken(t, id) ELSE GetCredentials(t, id)

\* keyedDebounce: a call for a key whose run is in flight is handed the
\* promise of that run
FetchJoin(t, op, id) ==
    /\ CanStart(t)
    /\ ~FetchSettling
    /\ FetchRun(op, id) # {}
    /\ Step(t, R([Cur EXCEPT !.log = StartLog],
                 [Begin(t, op, id) EXCEPT !.pc = "fetch_join", !.joined = TRUE]))
    /\ calls' = calls + 1
    /\ UNCHANGED <<env, tryAutoConnectOnce>>

\* the run has settled: the attached caller receives its outcome
FetchJoined(t) ==
    /\ tasks[t].pc = "fetch_join"
    /\ FetchRun(tasks[t].op, tasks[t].id) = {}
    /\ \E u \in Tasks :
          /\ tasks[u].op = tasks[t].op
          /\ tasks[u].id = tasks[t].id
          /\ tasks[u].pc = "done"
          /\ ~tasks[u].joined
          /\ SetTask(t, Finish([tasks[t] EXCEPT !.val = tasks[u].val], tasks[u].res))
    /\ UNCHANGED <<store, currentProfileId, activeConnection, validationErrors,
                   pending, log, env, calls, invalidCredentialsTimeouts,
                   tryAutoConnectOnce, isInternalUser, composerVars>>

InitJoin ==
    /\ Init
    /\ store["uuid-1"] # NoProfile
    /\ store["profile:default"] # NoProfile
    /\ currentProfileId = Undefined
    /\ ~env.dropTokens
    /\ env.providers = IamIds

\* keyedDebounce: a call for a key that has no run in flight starts one
FetchStart(t, op, id) ==
    /\ ~FetchSettling
    /\ FetchRun(op, id) = {}
    /\ IF op = "getToken" THEN GetToken(t, id) ELSE GetCredentials(t, id)

NextJoin ==
    \E t \in Tasks :
        \/ FetchStart(t, "getToken", "uuid-1")
        \/ FetchStart(t, "getCredentials", "profile:default")
        \/ FetchJoin(t, "getToken", "uuid-1")
        \/ FetchJoin(t, "getCredentials", "profile:default")
        \/ \E o \in {"token", "none", "InvalidGrant"} : GetTokenAfter(t, o)
        \/ \E o \in CredsOutcomes : GetCredentialsAfter(t, o)
        \/ \E r \in PromptResponses : PromptAfter(t, r)
        \/ GetTokenReturn(t)
        \/ FetchJoined(t)
        \/ \E id \in {"uuid-1", "profile:default"}, o \in {"ok", "AuthFailed"} :
              AuthenticateSettle(id, o, "token-1")

SpecJoin == InitJoin /\ [][NextJoin]_vars

(* ------------------------------------------------------------------ *)
(* setConnectionFromApi                                               *)
(* ------------------------------------------------------------------ *)
\* ProfileStore.updateMetadata(id, {source: 'amazonq', connectionState})
updateMetadataFromApi(s, id, st) ==
    Emit([s EXCEPT !.store[id].connectionState = st, !.store[id].source = "amazonq"],
         Wr("updateMetadata", id))

\* (a variant that sets the state of an existing profile only through
\* updateConnectionState)
setConnectionFromApiSourceOnly(s, task, id, newProfile, state) ==
    IF s.store[id] = NoProfile
        THEN LET s1 == addProfile(s, id, newProfile)
             IN  R(updateMetadataFromApi(s1, id, state), Finish(task, "ok"))
    ELSE LET s1 == updateProfile(s, id, newProfile)
             s2 == updateConnectionState(s1, id, state)
             s3 == IF s2.store[id].source = "-"
                       THEN Emit([s2 EXCEPT !.store[id].source = "amazonq"],
                                 Wr("updateMetadata", id))
                       ELSE s2
         IN  R(s3, Finish(task, "ok"))

\* Auth.setConnectionFromApi(connection): connection.id, the SSO profile made
\* of its fields, connection.state
setConnectionFromApi(s, task, id, newProfile, state) ==
    IF s.store[id] = NoProfile
        THEN LET s1 == addProfile(s, id, newProfile)
             IN  R(updateMetadataFromApi(s1, id, state), Finish(task, "ok"))
    ELSE LET s1 == updateProfile(s, id, newProfile)
             s2 == updateConnectionState(s1, id, state)
             s3 == IF s2.store[id].source = "-"
                       THEN updateMetadataFromApi(s2, id, state)
                       ELSE s2
         IN  R(s3, Finish(task, "ok"))

\* (the record of the call keeps connection.state in val)
SetConnectionFromApi(t, id, newProfile, state) ==
    /\ CanStart(t)
    /\ LET task == [Begin(t, "setConnectionFromApi", id) EXCEPT
                       !.profile = newProfile, !.val = state]
       IN  Step(t, setConnectionFromApi([Cur EXCEPT !.log = StartLog], task, id,
                                        newProfile, state))
    /\ calls' = calls + 1
    /\ UNCHANGED <<env, tryAutoConnectOnce>>

\* The public operations that change or read back a connection's state, one
\* at a time.
NextApi ==
    \E t \in {1} :
        \/ \E id \in {"uuid-1"}, p \in SsoProfiles, st \in ConnectionStates :
              SetConnectionFromApi(t, id, p, st)
        \/ \E id \in {"uuid-1", "profile:default"} : UseConnection(t, id)
        \/ \E o \in TokenOutcomes : UseAfterGetToken(t, o)
        \/ \E o \in CredsOutcomes : UseAfterCreds(t, o)
        \/ UseAfterAuth(t)
        \/ \E id \in {"uuid-1"} : GetToken(t, id)
        \/ \E o \in TokenOutcomes : GetTokenAfter(t, o)
        \/ \E r \in PromptResponses : PromptAfter(t, r)
        \/ GetTokenReturn(t)
        \/ \E id \in {"uuid-1"}, inv \in BOOLEAN : Reauthenticate(t, id, inv)
        \/ ReauthenticateReturn(t)
        \/ \E id \in Ids, o \in {"ok"} \cup CallbackErrors :
              AuthenticateSettle(id, o, "token-1")
        \/ \E id \in {"uuid-1"}, p \in SsoProfiles, inv \in BOOLEAN :
              UpdateConnection(t, id, p, inv)
        \/ InvalidateAfterToken(t)
        \/ UpdateApply(t)

SpecApi == Init /\ [][NextApi]_vars

(* ------------------------------------------------------------------ *)
(* authenticateData                                                   *)
(* ------------------------------------------------------------------ *)
\* Auth.thrownOnConn: listConnections(), then the check for `id`; `faults`
\* are the ids whose projection fails
thrownOnConn(s, faults, id, throwOn) ==
    LET s1 == loadIamProfilesIntoStore(s)
        conns == listConnections(s1)
        connExists == \E c \in conns : c.id = id
    IN  IF \E c \in conns : c.id \in faults THEN Throw(s1, "ProjectionError")
        ELSE IF throwOn = "exists" /\ connExists THEN Throw(s1, "ConnShouldNotExist")
        ELSE IF throwOn = "not-exists" /\ ~connExists THEN Throw(s1, "ConnShouldExist")
        ELSE s1

\* iamProfileProvider.addProvider / removeProvider
addProvider(e, id) == [e EXCEPT !.providers = @ \cup {id}]
removeProvider(e, id) == [e EXCEPT !.providers = @ \ {id}]

\* authenticateData, addTempCredential: the temporary provider is registered
\* and listConnections() is called
AuthenticateData(t) ==
    /\ CanStart(t)
    /\ tempId \notin env.providers
    /\ env' = addProvider(env, tempId)
    /\ Step(t, R(Emit([Cur EXCEPT !.log = StartLog], Wr("addProvider", tempId)),
                 [Begin(t, "authenticateData", tempId) EXCEPT !.pc = "data_staged"]))
    /\ calls' = calls + 1
    /\ UNCHANGED tryAutoConnectOnce

\* (a variant in which a failure of the staging check removes the provider)
AuthenticateDataStagedGuarded(t, faults) ==
    /\ tasks[t].pc = "data_staged"
    /\ LET s == thrownOnConn(Cur, faults, tempId, "not-exists")
       IN  IF s.threw # ""
               THEN /\ Step(t, R(s, tasks[t]))
                    /\ env' = removeProvider(env, tempId)
               ELSE /\ Step(t, R(authenticate(s, tempId, FALSE),
                                 [tasks[t] EXCEPT !.pc = "data_auth", !.target = tempId]))
                    /\ UNCHANGED env
    /\ UNCHANGED <<calls, tryAutoConnectOnce>>

\* addTempCredential after listConnections() settled: a failure rejects the
\* call (it is outside the try block); otherwise reauthenticate({id: tempId})
AuthenticateDataStaged(t, faults) ==
    /\ tasks[t].pc = "data_staged"
    /\ LET s == thrownOnConn(Cur, faults, tempId, "not-exists")
       IN  IF s.threw # ""
               THEN Step(t, R(s, tasks[t]))
               ELSE Step(t, R(authenticate(s, tempId, FALSE),
                              [tasks[t] EXCEPT !.pc = "data_auth", !.target = tempId]))
    /\ UNCHANGED <<env, calls, tryAutoConnectOnce>>

\* the AWS error codes authenticateData recognises
KeyErrors == {"InvalidClientTokenId", "SignatureDoesNotMatch"}
StaticOutcomes == {"ok", "AuthFailed"} \cup KeyErrors

\* the finally block, removeTempCredential: the provider is removed and
\* listConnections() is called
AuthenticateDataFinally(t) ==
    /\ tasks[t].pc = "data_auth"
    /\ tasks[t].authRes # ""
    /\ env' = removeProvider(env, tempId)
    /\ Step(t, R(Emit(Cur, Wr("removeProvider", tempId)),
                 [tasks[t] EXCEPT !.pc = "data_removed"]))
    /\ UNCHANGED <<calls, tryAutoConnectOnce>>

\* removeTempCredential after listConnections() settled, then the outcome of
\* the try block: undefined, the field that is wrong, or the error rethrown
authenticateDataResult(s, task, faults) ==
    LET s1 == thrownOnConn(s, faults, tempId, "exists")
    IN  IF s1.threw # "" THEN R(s1, task)
        ELSE IF task.authRes = "ok" THEN R(s1, Finish(task, "ok"))
        ELSE IF task.authRes = "InvalidClientTokenId"
            THEN R(s1, Finish([task EXCEPT !.val = "Invalid access key"], "ok"))
        ELSE IF task.authRes = "SignatureDoesNotMatch"
            THEN R(s1, Finish([task EXCEPT !.val = "Invalid secret key"], "ok"))
        ELSE R(Throw(s1, task.authRes), task)

AuthenticateDataRemoved(t, faults) ==
    /\ tasks[t].pc = "data_removed"
    /\ Step(t, authenticateDataResult(Cur, tasks[t], faults))
    /\ UNCHANGED <<env, calls, tryAutoConnectOnce>>

DataFaults == {{}, {"uuid-1"}}

NextData ==
    \E t \in {1} :
        \/ AuthenticateData(t)
        \/ \E f \in DataFaults : AuthenticateDataStaged(t, f)
        \/ \E o \in StaticOutcomes : AuthenticateSettle(tempId, o, "-")
        \/ AuthenticateDataFinally(t)
        \/ \E f \in DataFaults : AuthenticateDataRemoved(t, f)

SpecData == Init /\ [][NextData]_vars

(* ------------------------------------------------------------------ *)
(* updateConnectionState applied to the states useConnection leaves   *)
(* ------------------------------------------------------------------ *)
RequestedStates == PersistedStates \cup {"authenticating"}

\* updateConnectionState(id, connectionState) as a call of its own; the
\* record of the call keeps the requested state in val
UpdateConnectionState(t, id, connectionState) ==
    /\ CanStart(t)
    /\ LET task == [Begin(t, "updateConnectionState", id) EXCEPT !.val = connectionState]
           s == updateConnectionState([Cur EXCEPT !.log = StartLog], id, connectionState)
       IN  Step(t, R(s, Finish(task, "ok")))
    /\ calls' = calls + 1
    /\ UNCHANGED <<env, tryAutoConnectOnce>>

NextState ==
    \E t \in {1} :
        \/ \E id \in Ids : UseConnection(t, id)
        \/ \E o \in TokenOutcomes : UseAfterGetToken(t, o)
        \/ \E o \in CredsOutcomes : UseAfterCreds(t, o)
        \/ UseAfterAuth(t)
        \/ \E id \in Ids, o \in {"ok"} \cup CallbackErrors, val \in Tokens :
              AuthenticateSettle(id, o, val)
        \/ \E id \in Ids, st \in RequestedStates : UpdateConnectionState(t, id, st)

SpecState == Init /\ [][NextState]_vars

(* ------------------------------------------------------------------ *)
(* A re-auth prompt for "uuid-1" while the connection is               *)
(* re-authenticated by another call                                    *)
(* ------------------------------------------------------------------ *)
\* getToken is debounced per id: a second call made while one is in flight
\* receives the first one's promise and runs nothing of its own, so one
\* getToken runs at a time.
GetTokenInFlight == \E u \in Tasks : tasks[u].op = "getToken" /\ Busy(u)

NextPrompt ==
    \E t \in Tasks :
        \/ ~GetTokenInFlight /\ GetToken(t, "uuid-1")
        \/ \E o \in InfraOutcomes : GetTokenAfter(t, o)
        \/ \E r \in PromptResponses : PromptAfter(t, r)
        \/ GetTokenReturn(t)
        \/ \E inv \in BOOLEAN : Reauthenticate(t, "uuid-1", inv)
        \/ ReauthenticateReturn(t)
        \/ \E o \in {"ok"} \cup CallbackErrors : AuthenticateSettle("uuid-1", o, "token-1")

InitPrompt ==
    /\ Init
    /\ store["uuid-1"] # NoProfile
    /\ \A i \in IamIds : store[i] = NoProfile
    /\ currentProfileId = Undefined
    /\ ~env.dropTokens

SpecPrompt == InitPrompt /\ [][NextPrompt]_vars

(* ------------------------------------------------------------------ *)
(* C1: overlapping authenticate calls for one id                      *)
(* ------------------------------------------------------------------ *)
\* The log positions of the authenticate run whose callback was started at
\* position r: from its 'authenticating' announcement to its end.
RunWindow(r, id) ==
    LET ends == {i \in r..Len(log) : log[i] = Wr("authenticateDone", id)}
        e == IF ends = {} THEN Len(log) ELSE CHOOSE i \in ends : \A j \in ends : i <= j
    IN  (r - 1)..e

InWindow(r, id, entry) ==
    Cardinality({i \in RunWindow(r, id) : i >= 1 /\ log[i] = entry})

\* A call that asked to authenticate `id` while a run for `id` was in flight
\* and that has received the run's resolved value.
Overlapped(t) ==
    /\ tasks[t].op = "reauthenticate"
    /\ tasks[t].pc = "done"
    /\ tasks[t].res = "ok"
    /\ tasks[t].joined

SameRun(t, u) ==
    /\ u # t
    /\ tasks[u].op = "reauthenticate"
    /\ tasks[u].pc = "done"
    /\ tasks[u].id = tasks[t].id
    /\ tasks[u].run = tasks[t].run

CoalescedOnce(t) ==
    LET id == tasks[t].id
        r == tasks[t].run
    IN  /\ r <= tasks[t].start
        /\ InWindow(r, id, Wr("callback", id)) = 1
        /\ InWindow(r, id, EvState(id, "authenticating")) = 1
        /\ \A u \in Tasks : SameRun(t, u) =>
              tasks[u].res = "ok" /\ tasks[u].val = tasks[t].val

Events == {"activeConnectionChanged", "connectionStateChanged", "connectionDeleted",
           "connectionUpdated"}
StoreWrites == {"setCurrentProfileId", "updateMetadata", "deleteProfile", "addProfile",
                "updateProfile"}
Invalidations == {"client.logout", "provider.invalidate", "invalidateCredentials",
                  "updateMetadata", "connectionStateChanged"}

Done(t, op) == tasks[t].op = op /\ tasks[t].pc = "done"

\* the log positions holding entry e
At(e) == {i \in 1..Len(log) : log[i] = e}
\* the log positions holding an entry of one of the kinds ks
OfKind(ks) == {i \in 1..Len(log) : log[i].k \in ks}
Before(A, B) == \A i \in A, j \in B : i < j

\* slot t starts a call `op` in this step, and what the step has logged
Starts(t, op) == CanStart(t) /\ calls' = calls + 1 /\ tasks'[t].op = op
Logged(t) == SubSeq(log', tasks'[t].start + 1, Len(log'))

\* ------------------------------------------------------------ C2
ActiveEvents == OfKind({"activeConnectionChanged"})

UsedOk(t) == Done(t, "useConnection") /\ tasks[t].res = "ok"

\* the revalidation changed the stored state of the connection that was
\* active when the call started
PreviousActiveChanged(t) ==
    LET a == tasks[t].pre.active
    IN  /\ a \in AllIds
        /\ store[a] # NoProfile
        /\ store[a].connectionState # tasks[t].pre.activeStored

\* C2 as stated: after useConnection({id}) completed, activeConnection has
\* that id and exactly one activeConnectionChanged event was fired during the
\* call, carrying that connection.
C2_ExactlyOneEvent ==
    \A t \in Tasks : UsedOk(t) =>
        /\ activeConnection.id = tasks[t].id
        /\ Cardinality(ActiveEvents) = 1
        /\ \A i \in ActiveEvents : log[i] = EvActive(activeConnection)

\* C2 amended: after useConnection({id}) completed, activeConnection has that
\* id and the last activeConnectionChanged event of the call carries that
\* connection; it is the only one unless the revalidation changed the stored
\* state of the connection that was active when the call started, and then
\* exactly one earlier event (that state change) precedes it.
C2_LastEventCarriesConnection ==
    \A t \in Tasks : UsedOk(t) =>
        /\ activeConnection.id = tasks[t].id
        /\ activeConnection = tasks[t].out
        /\ currentProfileId = tasks[t].id
        /\ ActiveEvents # {}
        /\ \E i \in ActiveEvents :
              /\ \A j \in ActiveEvents : j <= i
              /\ log[i] = EvActive(activeConnection)
        /\ Cardinality(ActiveEvents) = IF PreviousActiveChanged(t) THEN 2 ELSE 1

C2_Witness ==
    \E t \in Tasks :
        /\ UsedOk(t)
        /\ tasks[t].pre.active = tasks[t].id
        /\ tasks[t].pre.state = "valid"
        /\ activeConnection.state = "invalid"
        /\ Cardinality(ActiveEvents) = 2

\* ------------------------------------------------------------ C3
\* C3: logout() with no active connection fires no event and writes nothing:
\* the active reference, the pointer and every stored profile are unchanged.
C3_LogoutNoop ==
    [][\A t \in Tasks :
          (Starts(t, "logout") /\ activeConnection = NoConn) =>
              /\ tasks'[t].pc = "done"
              /\ tasks'[t].res = "ok"
              /\ UNCHANGED <<store, currentProfileId, activeConnection, validationErrors>>
              /\ \A i \in 1..Len(Logged(t)) :
                    Logged(t)[i].k \notin Events \cup StoreWrites \cup Invalidations]_vars

C3_Witness ==
    \E t \in Tasks :
        /\ Done(t, "logout")
        /\ tasks[t].pre.active = Undefined
        /\ tasks[t].pre.cur # Undefined
        /\ currentProfileId = tasks[t].pre.cur

\* ------------------------------------------------------------ C4
LoggedOut(t) ==
    /\ Done(t, "logout")
    /\ tasks[t].res = "ok"
    /\ tasks[t].pre.active # Undefined

\* the steps invalidateConnection takes for id `a` of type `type`
InvalidationSteps(a, type, wasInvalid) ==
    /\ type = "sso" => Cardinality(At(Wr("client.logout", a))) = 1
    /\ (type = "sso" /\ env.dropTokens) =>
          /\ Cardinality(At(Wr("provider.invalidate", a))) = 1
          /\ Before(At(Wr("client.logout", a)), At(Wr("provider.invalidate", a)))
    /\ type = "iam" => Cardinality(At(Wr("invalidateCredentials", a))) = 1
    /\ ~wasInvalid => Cardinality(At(EvState(a, "invalid"))) = 1
    /\ Before(OfKind({"client.logout", "provider.invalidate", "invalidateCredentials"}),
              At(Wr("updateMetadata", a)) \cup At(EvState(a, "invalid")))

\* the order of logout(): pointer cleared, connection `a` invalidated,
\* reference cleared and activeConnectionChanged(absent) fired
LogoutOrder(a, type, wasInvalid) ==
    /\ Cardinality(At(Wr("setCurrentProfileId", Undefined))) = 1
    /\ Cardinality(At(EvActive(NoConn))) = 1
    /\ InvalidationSteps(a, type, wasInvalid)
    /\ \A i \in OfKind(Invalidations) : log[i].id = a
    /\ Before(At(Wr("logout", Undefined)), At(Wr("setCurrentProfileId", Undefined)))
    /\ Before(At(Wr("setCurrentProfileId", Undefined)), OfKind(Invalidations))
    /\ Before(OfKind(Invalidations), At(EvActive(NoConn)))
    /\ Before(At(Entry("activeConnectionChanged", a, "invalid")), At(EvActive(NoConn)))

\* C4: logout() with a connection active, completing normally: the pointer is
\* persisted as absent, then the active connection is invalidated (its stored
\* state becomes invalid), then the reference is cleared and
\* activeConnectionChanged(absent) is fired; afterwards activeConnection and
\* the pointer are absent.
C4_LogoutOrder ==
    \A t \in Tasks : LoggedOut(t) =>
        LET a == tasks[t].pre.active
        IN  /\ activeConnection = NoConn
            /\ currentProfileId = Undefined
            /\ store[a].connectionState = "invalid"
            /\ LogoutOrder(a, store[a].type, tasks[t].pre.activeStored = "invalid")
            /\ log[Len(log)] = EvActive(NoConn)

C4_Witness ==
    \E t \in Tasks :
        /\ LoggedOut(t)
        /\ tasks[t].pre.activeStored = "valid"
        /\ tasks[t].pre.cur = tasks[t].pre.active
        /\ store[tasks[t].pre.active].type = "sso"
        /\ env.dropTokens

\* ------------------------------------------------------------ C5
Created(t) == Done(t, "createConnection") /\ tasks[t].res = "ok"

\* what getConnection({id}) called now would leave and return
Probe(id) == getConnection(Cur, [IdleTask EXCEPT !.id = id])

\* C5: once createConnection(profile) returned a connection, getConnection
\* with the returned id yields a connection with the id, startUrl and region
\* of the input profile and of the returned connection, and the stored state
\* of that id is valid.
C5_CreateThenGet ==
    \A t \in Tasks : Created(t) =>
        LET got == Probe(tasks[t].out.id)
            c == got.task.out
        IN  /\ got.task.res = "ok"
            /\ c.id = tasks[t].out.id
            /\ c.type = "sso"
            /\ c.startUrl = tasks[t].profile.startUrl
            /\ c.ssoRegion = tasks[t].profile.ssoRegion
            /\ c.startUrl = tasks[t].out.startUrl
            /\ c.ssoRegion = tasks[t].out.ssoRegion
            /\ c.state = "valid"
            /\ got.s.store[c.id].connectionState = "valid"

C5_Witness ==
    \E t \in Tasks :
        /\ Created(t)
        /\ tasks[t].profile.ssoRegion = "eu-west-1"
        /\ At(Wr("provider.createToken", tasks[t].out.id)) # {}
        /\ Probe(tasks[t].out.id).task.out.ssoRegion = "eu-west-1"

\* ------------------------------------------------------------ C6
\* the errors raised by the steps of createConnection for the generated id
CreateFailures(t) == {i \in OfKind({"failed"}) : log[i].id = tasks[t].id}

\* C6: when a step of createConnection fails after the id was generated
\* (token lookup, token creation, adding the profile, marking it valid), the
\* call fails with that error and the store holds no profile for the id.
C6_CreateRollsBack ==
    \A t \in Tasks : (Done(t, "createConnection") /\ CreateFailures(t) # {}) =>
        /\ \A i \in CreateFailures(t) : tasks[t].res = log[i].st
        /\ store[tasks[t].id] = NoProfile
        /\ Probe(tasks[t].id).task.out = NoConn

C6_Witness ==
    \E t \in Tasks :
        /\ Done(t, "createConnection")
        /\ tasks[t].res = "StoreError"
        /\ At(Wr("addProfile", tasks[t].id)) # {}
        /\ At(Wr("deleteProfile", tasks[t].id)) # {}
        /\ store[tasks[t].id] = NoProfile

\* ------------------------------------------------------------ C7
\* C7: createConnection and updateConnection with an IAM profile fail before
\* any effect: no profile added or changed, nothing invalidated, no event
\* fired (not even the 'authenticating' announcement).
C7_IamRejected ==
    [][\A t \in Tasks :
          ((Starts(t, "createConnection") \/ Starts(t, "updateConnection"))
                /\ tasks'[t].profile.type = "iam") =>
              /\ tasks'[t].pc = "done"
              /\ tasks'[t].res = "UnsupportedOperation"
              /\ UNCHANGED <<store, currentProfileId, activeConnection, validationErrors,
                             pending>>
              /\ Logged(t) = <<>>]_vars

C7_Witness ==
    \E t \in Tasks :
        /\ Done(t, "updateConnection")
        /\ tasks[t].profile.type = "iam"
        /\ tasks[t].res = "UnsupportedOperation"
        /\ tasks[t].pre.state = "valid"
        /\ store[tasks[t].id].connectionState = "valid"

\* ------------------------------------------------------------ C8
\* a completed deleteConnection of an id that had a profile
Deleted(t) ==
    /\ Done(t, "deleteConnection")
    /\ tasks[t].res = "ok"
    /\ tasks[t].pre.state # "-"

\* C8: deleteConnection of the active connection runs logout() before the
\* profile is removed (pointer cleared, connection invalidated with logout's
\* steps, reference cleared, activeConnectionChanged(absent) fired);
\* deleteConnection of another connection never runs logout().
C8_DeleteActiveLogsOut ==
    \A t \in Tasks : Deleted(t) =>
        LET id == tasks[t].id
        IN  IF tasks[t].pre.active = id
                THEN /\ Cardinality(At(Wr("logout", Undefined))) = 1
                     /\ LogoutOrder(id, tasks[t].pre.type, tasks[t].pre.state = "invalid")
                     /\ Cardinality(At(Wr("deleteProfile", id))) = 1
                     /\ Before(At(EvActive(NoConn)), At(Wr("deleteProfile", id)))
                     /\ activeConnection = NoConn
                     /\ currentProfileId = Undefined
                     /\ store[id] = NoProfile
                ELSE At(Wr("logout", Undefined)) = {}

C8_Witness ==
    \E t \in Tasks :
        /\ Deleted(t)
        /\ tasks[t].pre.active = tasks[t].id
        /\ tasks[t].pre.type = "sso"
        /\ tasks[t].pre.state = "valid"
        /\ tasks[t].pre.cur = tasks[t].id

\* ------------------------------------------------------------ C9
DeletedOther(t) == Deleted(t) /\ tasks[t].pre.active # tasks[t].id

\* C9 as stated: deleteConnection of a connection that is not the active one
\* sends no server-side logout request for it and does not clear the pointer.
C9_NoServerLogout ==
    \A t \in Tasks : DeletedOther(t) =>
        /\ At(Wr("client.logout", tasks[t].id)) = {}
        /\ OfKind({"setCurrentProfileId"}) = {}
        /\ currentProfileId = tasks[t].pre.cur

\* C9 amended: deleteConnection of a connection that is not the active one
\* invalidates it with invalidateConnection's steps, which for an SSO
\* connection include the server-side logout request; it does not run
\* logout() and does not clear the pointer.
C9_InvalidatesWithoutLogout ==
    \A t \in Tasks : DeletedOther(t) =>
        /\ InvalidationSteps(tasks[t].id, tasks[t].pre.type, tasks[t].pre.state = "invalid")
        /\ Before(OfKind(Invalidations), At(Wr("deleteProfile", tasks[t].id)))
        /\ At(Wr("logout", Undefined)) = {}
        /\ OfKind({"setCurrentProfileId"}) = {}
        /\ currentProfileId = tasks[t].pre.cur

C9_Witness ==
    \E t \in Tasks :
        /\ DeletedOther(t)
        /\ tasks[t].pre.type = "sso"
        /\ tasks[t].pre.active # Undefined
        /\ tasks[t].pre.cur = tasks[t].pre.active
        /\ activeConnection # NoConn
        /\ At(Wr("client.logout", tasks[t].id)) # {}

\* ------------------------------------------------------------ C10
\* C10: deleteConnection of an id with no stored profile changes nothing,
\* invalidates nothing, does not fail and fires exactly one connectionDeleted
\* event with no stored profile; and every completed deleteConnection leaves
\* its id without a profile, so deleting it again is that no-op.
C10_DeleteIdempotent ==
    [][\A t \in Tasks :
          /\ \A id \in Ids :
                (Starts(t, "deleteConnection") /\ tasks'[t].id = id
                      /\ store[id] = NoProfile) =>
                    /\ tasks'[t].pc = "done"
                    /\ tasks'[t].res = "ok"
                    /\ UNCHANGED <<store, currentProfileId, activeConnection,
                                   validationErrors, pending>>
                    /\ Logged(t) = <<EvDeleted(id, NoProfile)>>
          /\ (tasks'[t].op = "deleteConnection" /\ tasks'[t].pc = "done"
                  /\ tasks'[t] # tasks[t]) =>
                /\ tasks'[t].res = "ok" => store'[tasks'[t].id] = NoProfile
                /\ Count(Logged(t), LAMBDA e : e.k = "connectionDeleted") =
                       IF tasks'[t].res = "ok" THEN 1 ELSE 0]_vars

C10_Witness ==
    \E t \in Tasks :
        /\ Done(t, "deleteConnection")
        /\ tasks[t].res = "ok"
        /\ tasks[t].pre.state = "-"
        /\ calls = 2
        /\ log = <<EvDeleted(tasks[t].id, NoProfile)>>

(* ------------------------------------------------------------------ *)
(* Claims about linked IAM connections and listConnections            *)
(* (specification SpecLinked)                                         *)
(* ------------------------------------------------------------------ *)
\* the IAM connections linked to the SSO connection `id`
LinkedTo(id) == {l \in LinkedIds : ssoSession(l) = id}

\* what a listConnections() call made in the current state returns
ListedNow == listConnections(loadIamProfilesIntoStore(Cur))

\* ------------------------------------------------------------ C11
\* C11: once deleteConnection of an SSO connection has completed, no IAM
\* connection linked to it is returned by listConnections() (neither by a
\* call made in the state it leaves nor by a later call while the SSO
\* connection is gone), and if the active connection was such a linked
\* connection the active reference has been cleared, after the profile was
\* removed, with an activeConnectionChanged(absent) event.
C11_LinkedSwept ==
    /\ \A t \in Tasks : (Deleted(t) /\ tasks[t].pre.type = "sso") =>
          /\ \A l \in LinkedTo(tasks[t].id) :
                /\ store[l] = NoProfile
                /\ \A c \in ListedNow : c.id # l
          /\ tasks[t].pre.active \in LinkedTo(tasks[t].id) =>
                /\ activeConnection = NoConn
                /\ Cardinality(At(EvActive(NoConn))) = 1
                /\ Before(At(Wr("deleteProfile", tasks[t].id)), At(EvActive(NoConn)))
    /\ \A t \in Tasks : (Done(t, "listConnections") /\ tasks[t].res = "ok") =>
          \A c \in tasks[t].list :
              c.id \in LinkedIds => store[ssoSession(c.id)] # NoProfile

C11_Witness ==
    \E t \in Tasks :
        /\ Deleted(t)
        /\ tasks[t].id = "uuid-1"
        /\ tasks[t].pre.active = LinkedId
        /\ tasks[t].pre.activeStored = "valid"
        /\ activeConnection = NoConn
        /\ store[LinkedId] = NoProfile

\* ------------------------------------------------------------ C20
FailedProjection(t) == \E c \in ListedNow : c.id \in tasks[t].faults

\* C20 as stated: when the projection of one stored profile fails,
\* listConnections() still returns, and its result holds the projections of
\* all other stored profiles and omits only the failing one.
C20_SkipsBadProfile ==
    \A t \in Tasks : (tasks[t].op = "listConnections" /\ tasks[t].pc = "done") =>
        /\ tasks[t].res = "ok"
        /\ tasks[t].list = {c \in ListedNow : c.id \notin tasks[t].faults}

\* C20 amended: listConnections() returns the projections of all stored
\* profiles when every projection succeeds; when the projection of any stored
\* profile fails, the call fails with that error and returns nothing.
C20_FailsOnBadProfile ==
    \A t \in Tasks : (tasks[t].op = "listConnections" /\ tasks[t].pc = "done") =>
        IF FailedProjection(t)
            THEN tasks[t].res = "ProjectionError" /\ tasks[t].list = {}
            ELSE tasks[t].res = "ok" /\ tasks[t].list = ListedNow

C20_Witness ==
    \E t \in Tasks :
        /\ tasks[t].op = "listConnections"
        /\ tasks[t].pc = "done"
        /\ tasks[t].faults = {"uuid-1"}
        /\ store["uuid-1"] # NoProfile
        /\ store["profile:default"] # NoProfile
        /\ tasks[t].res = "ProjectionError"

(* ------------------------------------------------------------------ *)
(* Claims about token retrieval and recoverable errors                *)
(* (specification SpecToken)                                          *)
(* ------------------------------------------------------------------ *)
\* a completed connection.getToken() call that entered
\* handleInvalidCredentials with the profile stored in state `st`
Handled(t, st) ==
    /\ Done(t, "getToken")
    /\ At(Wr("handleInvalidCredentials", tasks[t].id)) # {}
    /\ tasks[t].pre.state = st

Responses(id, rs) == {i \in 1..Len(log) : \E r \in rs : log[i] = Entry("prompt.response", id, r)}

\* ------------------------------------------------------------ C12
\* C12: handleInvalidCredentials entered for a connection stored as invalid
\* fails at once with the 'connection invalid' error: no prompt, no timer, no
\* authentication (no announcement, no callback), no event and no store
\* write; the stored state stays invalid.
C12_InvalidFailsFast ==
    \A t \in Tasks : Handled(t, "invalid") =>
        /\ tasks[t].res = "InvalidConnection"
        /\ OfKind({"prompt", "timeout", "callback", "authenticateDone"}) = {}
        /\ OfKind(Events) = {}
        /\ OfKind(StoreWrites) = {}
        /\ store[tasks[t].id].connectionState = "invalid"

C12_Witness ==
    \E t \in Tasks :
        /\ Handled(t, "invalid")
        /\ tasks[t].res = "InvalidConnection"
        /\ tasks[t].seen = {"InvalidGrant"}
        /\ tasks[t].id \in validationErrors

\* ------------------------------------------------------------ C13
\* C13: handleInvalidCredentials entered for a connection stored as valid
\* first demotes it to invalid and then prompts; when the user accepts and
\* the refresh callback succeeds, 'authenticating' is announced after the
\* answer, the callback runs once, the stored state ends valid and the caller
\* receives the value the callback resolved to.
C13_AcceptedRevalidates ==
    \A t \in Tasks :
        (Handled(t, "valid") /\ Responses(tasks[t].id, {"login"}) # {}
              /\ tasks[t].res = "ok") =>
            LET id == tasks[t].id
            IN  /\ Cardinality(At(EvState(id, "invalid"))) = 1
                /\ Cardinality(At(Wr("prompt", id))) = 1
                /\ Cardinality(At(EvState(id, "authenticating"))) = 1
                /\ Cardinality(At(Wr("callback", id))) = 1
                /\ Cardinality(At(EvState(id, "valid"))) = 1
                /\ Before(At(EvState(id, "invalid")), At(Wr("prompt", id)))
                /\ Before(At(Wr("prompt", id)), Responses(id, {"login"}))
                /\ Before(Responses(id, {"login"}), At(EvState(id, "authenticating")))
                /\ Before(At(EvState(id, "authenticating")), At(Wr("callback", id)))
                /\ Before(At(Wr("callback", id)), At(EvState(id, "valid")))
                /\ store[id].connectionState = "valid"
                /\ tasks[t].val \in Tokens
                /\ id \notin invalidCredentialsTimeouts

C13_Witness ==
    \E t \in Tasks :
        /\ Handled(t, "valid")
        /\ Responses(tasks[t].id, {"login"}) # {}
        /\ tasks[t].res = "ok"
        /\ store[tasks[t].id].connectionState = "valid"

\* ------------------------------------------------------------ C14
\* C14: handleInvalidCredentials entered for a connection stored as valid,
\* when the user declines or dismisses the prompt or the timer elapses first,
\* fails with the error tagged as cancelled, runs no refresh callback (and
\* announces no 'authenticating'), and leaves the stored state invalid.
C14_DeclinedCancels ==
    \A t \in Tasks :
        (Handled(t, "valid")
              /\ Responses(tasks[t].id, {"no", "dismissed", "timeout"}) # {}) =>
            LET id == tasks[t].id
            IN  /\ tasks[t].res = "UserCancelled"
                /\ OfKind({"callback", "authenticateDone"}) = {}
                /\ At(EvState(id, "authenticating")) = {}
                /\ Cardinality(At(EvState(id, "invalid"))) = 1
                /\ store[id].connectionState = "invalid"

C14_Witness ==
    \E t \in Tasks :
        /\ Handled(t, "valid")
        /\ Responses(tasks[t].id, {"timeout"}) # {}
        /\ tasks[t].res = "UserCancelled"
        /\ store[tasks[t].id].connectionState = "invalid"

\* ------------------------------------------------------------ C19
\* a completed useConnection (validateConnection), reauthenticate
\* (authenticate) or getToken call during which a collaborator failed with a
\* network or disk-cache error
InfraFailed(t) ==
    /\ tasks[t].op \in {"useConnection", "reauthenticate", "getToken"}
    /\ tasks[t].pc = "done"
    /\ tasks[t].seen \cap RecoverableCauses # {}

\* the network or disk-cache error the call saw
Infra(t) == CHOOSE c \in tasks[t].seen \cap RecoverableCauses : TRUE

\* the registry holds an entry for the call's id only if it held one before
\* the call or the call also saw an error that is not recoverable
NoEntryAdded(t) ==
    tasks[t].id \in validationErrors =>
        \/ tasks[t].pre.hadError
        \/ ~(tasks[t].seen \subseteq RecoverableCauses)

AutoPaths == OfKind({"restorePreviousSession", "tryConnection"})

\* the stored state of profile i was written before any auto-connect path
\* was attempted
ClearedFirst(i) ==
    \E p \in At(Wr("updateMetadata", i)) : \A q \in AutoPaths : p < q

\* a call of tryAutoConnect that ran the body, past its first step
RanBody(t) ==
    /\ tasks[t].op = "tryAutoConnect"
    /\ tasks[t].pc # "idle"
    /\ ~tasks[t].joined

C16_BodyRunsOnce ==
    [][\A t \in Tasks :
          /\ (Starts(t, "tryAutoConnect") /\ tryAutoConnectOnce # "none") =>
                 /\ tasks'[t].pc = "auto_wait"
                 /\ log' = StartLog
                 /\ store' = store
                 /\ currentProfileId' = currentProfileId
                 /\ activeConnection' = activeConnection
                 /\ tryAutoConnectOnce' = tryAutoConnectOnce
          /\ (tasks[t].pc = "auto_wait" /\ tasks'[t] # tasks[t]) =>
                 /\ tryAutoConnectOnce # "running"
                 /\ tasks'[t].pc = "done"
                 /\ tasks'[t].res = tryAutoConnectOnce
                 /\ log' = log
                 /\ store' = store
                 /\ currentProfileId' = currentProfileId
                 /\ activeConnection' = activeConnection
          /\ Cardinality(At(Wr("_tryAutoConnect", Undefined))) <= 1]_vars

C16_Witness ==
    \E t, u \in Tasks :
        /\ Done(t, "tryAutoConnect") /\ ~tasks[t].joined
        /\ Done(u, "tryAutoConnect") /\ tasks[u].joined
        /\ tasks[u].start > tasks[t].start
        /\ tasks[u].res = tasks[t].res
        /\ activeConnection.id = ec2ProfileId

\* ------------------------------------------------------------ C17
\* the sources whose tryConnection returned true
Resolved == {id \in ProviderIds : At(Entry("tryConnection.result", id, "true")) # {}}

\* a finished call of tryAutoConnect that went on to the implicit sources
TriedSources(t) ==
    /\ Done(t, "tryAutoConnect")
    /\ ~tasks[t].joined
    /\ At(Wr("tryConnection", ec2ProfileId)) # {}

\* C17 as stated: when restoring the previous session fails, the sources are
\* tried in the order instance role, container role, legacy profile; the
\* first that resolves is adopted, it is the active connection at the end
\* (where no host-specific attempt follows), and no source after it is
\* connected.
C17_FirstResolvedAdopted ==
    \A t \in Tasks : TriedSources(t) =>
        \A k \in 1..3 :
            LET id == ImplicitSources[k]
            IN  (id \in Resolved /\ \A j \in 1..(k - 1) : ImplicitSources[j] \notin Resolved) =>
                    /\ \A j \in (k + 1)..3 : ImplicitSources[j] \notin Resolved
                    /\ At(Wr("tryConnection", sagemakerProfileId)) = {} =>
                           activeConnection.id = id

\* the instance role and the legacy profile both resolved, and the legacy
\* profile is the connection left active
C17_Witness ==
    \E t \in Tasks :
        /\ TriedSources(t)
        /\ Resolved = {ec2ProfileId, legacyProfile}
        /\ Before(At(Entry("tryConnection.result", ec2ProfileId, "true")),
                  At(Wr("tryConnection", legacyProfile)))
        /\ activeConnection.id = legacyProfile

\* ------------------------------------------------------------ C18
\* C18 as stated: the host-specific attempt is made only if the host vends
\* credentials and none of the earlier sources resolved.
C18_FinalAttemptOnlyIfNoneResolved ==
    \A t \in Tasks :
        (/\ Done(t, "tryAutoConnect")
         /\ ~tasks[t].joined
         /\ At(Wr("tryConnection", sagemakerProfileId)) # {}) =>
            /\ env.sagemaker
            /\ Resolved \ {sagemakerProfileId} = {}

\* the instance role resolved, the host-specific attempt was made all the
\* same and its connection replaced the adopted one
C18_Witness ==
    \E t \in Tasks :
        /\ Done(t, "tryAutoConnect")
        /\ ~tasks[t].joined
        /\ Resolved = {ec2ProfileId, sagemakerProfileId}
        /\ Before(At(Entry("tryConnection.result", ec2ProfileId, "true")),
                  At(Wr("tryConnection", sagemakerProfileId)))
        /\ activeConnection.id = sagemakerProfileId

\* ------------------------------------------------------------ C27
\* a completed useConnection on a stored SSO profile whose token lookup
\* yielded `outcome`
ValidatedSso(t, outcome) ==
    /\ Done(t, "useConnection")
    /\ tasks[t].pre.type = "sso"
    /\ tasks[t].got = outcome

\* C27: validating an SSO profile stores valid when the token provider
\* returns a token and invalid when it returns none, and in both cases no
\* error reaches the caller and none is recorded.
C27_TokenDecidesState ==
    \A t \in Tasks :
        /\ ValidatedSso(t, "token") =>
               /\ tasks[t].res = "ok"
               /\ store[tasks[t].id].connectionState = "valid"
        /\ ValidatedSso(t, "none") =>
               /\ tasks[t].res = "ok"
               /\ store[tasks[t].id].connectionState = "invalid"
               /\ tasks[t].seen = {}
               /\ tasks[t].id \in validationErrors => tasks[t].pre.hadError

C27_Witness ==
    \E t \in Tasks :
        /\ ValidatedSso(t, "none")
        /\ tasks[t].pre.state = "valid"
        /\ store[tasks[t].id].connectionState = "invalid"
        /\ activeConnection.id = tasks[t].id

\* ------------------------------------------------------------ C28
\* a completed useConnection on the stored linked IAM profile, whose source
\* token lookup yielded tasks[t].got
ValidatedLinked(t) ==
    /\ Done(t, "useConnection")
    /\ tasks[t].id = LinkedId
    /\ tasks[t].pre.type = "iam"
    /\ tasks[t].got # "-"

\* neither the credentials cache nor the credentials provider of the linked
\* connection was consulted
NotConsulted(id) ==
    /\ At(Wr("getCachedCredentials", id)) = {}
    /\ At(Wr("callback", id)) = {}

C29_MissingProfileDeletes ==
    \A t \in Tasks : (Handled(t, "-") /\ tasks[t].pre.type = "-") =>
        LET id == tasks[t].id
        IN  /\ tasks[t].res = "ProfileNotFound"
            /\ Cardinality(At(EvDeleted(id, NoProfile))) = 1
            /\ OfKind(Events) = At(EvDeleted(id, NoProfile))
            /\ Before(At(Wr("handleInvalidCredentials", id)), At(EvDeleted(id, NoProfile)))
            /\ OfKind({"prompt", "timeout", "callback", "authenticateDone"}) = {}
            /\ OfKind(StoreWrites) = {}
            /\ OfKind(Invalidations) = {}
            /\ store[id] = NoProfile
            /\ id \notin invalidCredentialsTimeouts

C29_Witness ==
    \E t \in Tasks :
        /\ Handled(t, "-")
        /\ tasks[t].pre.type = "-"
        /\ tasks[t].res = "ProfileNotFound"
        /\ At(EvDeleted("uuid-1", NoProfile)) # {}

\* ------------------------------------------------------------ C30
\* C30: the re-auth prompt is shown only when the profile was stored valid
\* on entry to handleInvalidCredentials. Stored invalid: no prompt, and the
\* call fails without authenticating. Stored unauthenticated: no prompt and
\* no timer, and the call goes straight to authenticate with the refresh
\* callback and returns what it settles with.
C30_PromptOnlyWhenValid ==
    \A t \in Tasks :
        LET id == tasks[t].id
        IN  /\ (tasks[t].op = "getToken" /\ At(Wr("prompt", id)) # {}) =>
                   tasks[t].pre.state = "valid"
            /\ Handled(t, "valid") =>
                   /\ Cardinality(At(Wr("prompt", id))) = 1
                   /\ Before(At(Wr("handleInvalidCredentials", id)), At(Wr("prompt", id)))
            /\ Handled(t, "invalid") =>
                   /\ tasks[t].res = "InvalidConnection"
                   /\ OfKind({"prompt", "prompt.response", "callback"}) = {}
            /\ Handled(t, "unauthenticated") =>
                   /\ OfKind({"prompt", "prompt.response", "timeout"}) = {}
                   /\ Cardinality(At(Wr("callback", id))) = 1
                   /\ Before(At(Wr("handleInvalidCredentials", id)),
                             At(EvState(id, "authenticating")))
                   /\ Before(At(EvState(id, "authenticating")), At(Wr("callback", id)))
                   /\ (tasks[t].res = "ok") = (tasks[t].seen \cap (CallbackErrors \cup {"DiskCacheError"}) = {})
                   /\ tasks[t].res = "ok" => tasks[t].val \in Tokens

C30_Witness ==
    \E t \in Tasks :
        /\ Handled(t, "unauthenticated")
        /\ tasks[t].res = "ok"
        /\ tasks[t].val \in Tokens
        /\ store[tasks[t].id].connectionState = "valid"
        /\ OfKind({"prompt"}) = {}

\* ------------------------------------------------------------ C24
\* what a step appends to the log (the log restarts when a call starts with
\* nothing else in flight)
Appended ==
    IF Quiescent /\ calls' # calls THEN log'
    ELSE SubSeq(log', Len(log) + 1, Len(log'))
LastOf(S) == CHOOSE i \in S : \A j \in S : j <= i
ActiveEventsIn(l) == {i \in 1..Len(l) : l[i].k = "activeConnectionChanged"}

\* C24: a step that changes the active-connection reference (a new
\* connection, cleared, or a new state field) also fires
\* activeConnectionChanged, and the last such event of the step carries the
\* value the reference has when the step ends; so in every state between
\* steps the last activeConnectionChanged event on record equals the current
\* activeConnection.
C24_ActiveChangeAnnounced ==
    /\ [](ActiveEvents # {} => log[LastOf(ActiveEvents)] = EvActive(activeConnection))
    /\ [][activeConnection' # activeConnection =>
             /\ ActiveEventsIn(Appended) # {}
             /\ Appended[LastOf(ActiveEventsIn(Appended))] = EvActive(activeConnection')]_vars

\* the state field of the active connection was changed by a revalidation
C24_Witness ==
    \E t \in Tasks :
        /\ tasks[t].pc = "done"
        /\ activeConnection.id \in AllIds
        /\ tasks[t].pre.active = activeConnection.id
        /\ tasks[t].pre.activeStored # activeConnection.state
        /\ ActiveEvents # {}
        /\ log[LastOf(ActiveEvents)] = EvActive(activeConnection)
        /\ At(EvState(activeConnection.id, activeConnection.state)) # {}

\* ------------------------------------------------------------ C22
Updated(t) == Done(t, "updateConnection") /\ tasks[t].res = "ok"
\* the call was asked to invalidate the connection first
Invalidated(t) == tasks[t].val = "invalidate"
UpdatedActive(t) == tasks[t].pre.active = tasks[t].id

\* what every updateConnection that returns has done with the profile, the
\* active reference and the two update events
UpdateRefreshesActive(t) ==
    LET id == tasks[t].id
        conn == tasks[t].out
    IN  /\ store[id] = Stored(tasks[t].profile, store[id].connectionState)
        /\ conn = getSsoConnection(id, store[id])
        /\ Cardinality(At(EvUpdated(conn))) = 1
        /\ log[Len(log)] = EvUpdated(conn)
        /\ IF UpdatedActive(t)
               THEN /\ activeConnection = conn
                    /\ log[Len(log) - 1] = EvActive(conn)
               ELSE /\ activeConnection.id = tasks[t].pre.active
                    /\ ActiveEvents = {}

\* C22 as stated: updateConnection on the active id replaces the active
\* reference by the projection of the updated profile and fires
\* activeConnectionChanged and connectionUpdated; on another id it fires
\* only connectionUpdated and leaves the active reference alone; the stored
\* state of the profile is the one it had before the call.
C22_OnlyUpdateEvents ==
    \A t \in Tasks : Updated(t) =>
        /\ UpdateRefreshesActive(t)
        /\ store[tasks[t].id].connectionState = tasks[t].pre.state
        /\ OfKind(Events) =
               At(EvUpdated(tasks[t].out)) \cup
               (IF UpdatedActive(t) THEN At(EvActive(tasks[t].out)) ELSE {})

\* C22, amended: the above holds of a call that does not invalidate. A call
\* that invalidates first leaves the stored state invalid, announces that
\* state change when the connection was not already invalid (together with
\* the active connection's when the id is active), and then updates the
\* profile and the active reference in the same way.
C22_UpdateKeepsMetadata ==
    \A t \in Tasks : Updated(t) =>
        LET id == tasks[t].id
        IN  /\ UpdateRefreshesActive(t)
            /\ ~Invalidated(t) =>
                   /\ store[id].connectionState = tasks[t].pre.state
                   /\ OfKind(Events) =
                          At(EvUpdated(tasks[t].out)) \cup
                          (IF UpdatedActive(t) THEN At(EvActive(tasks[t].out)) ELSE {})
            /\ Invalidated(t) =>
                   /\ store[id].connectionState = "invalid"
                   /\ (At(EvState(id, "invalid")) # {}) = (tasks[t].pre.state # "invalid")
                   /\ OfKind(Events) \subseteq
                          At(EvUpdated(tasks[t].out)) \cup At(EvState(id, "invalid"))
                              \cup (IF UpdatedActive(t) THEN ActiveEvents ELSE {})
                   /\ Before(At(EvState(id, "invalid")), At(Wr("updateProfile", id)))

C22_Witness ==
    \E t \in Tasks :
        /\ Updated(t)
        /\ UpdatedActive(t)
        /\ Invalidated(t)
        /\ tasks[t].pre.state = "valid"
        /\ activeConnection.startUrl = tasks[t].profile.startUrl
        /\ activeConnection.state = "invalid"

\* ------------------------------------------------------------ C23
Forgot(t) == Done(t, "forgetConnection")

\* C23: forgetConnection removes the profile from the store and fires one
\* connectionDeleted, and invalidates nothing: no logout of the SSO service,
\* no token or cached credentials invalidated, no logout(), no stored state
\* written, no connectionStateChanged; every profile still stored after the
\* call has the state it had before.
C23_ForgetsWithoutInvalidation ==
    /\ [](\A t \in Tasks : Forgot(t) =>
            LET id == tasks[t].id
                deleted == EvDeleted(id, IF tasks[t].pre.type = "-" THEN NoProfile
                                         ELSE Stored(IamProfile, "invalid"))
            IN  /\ tasks[t].res = "ok"
                /\ store[id] = NoProfile
                /\ OfKind(Invalidations \cup {"logout"}) = {}
                /\ OfKind({"connectionDeleted"}) = At(deleted)
                /\ Cardinality(At(deleted)) = 1
                /\ log[Len(log)] = deleted
                /\ tasks[t].pre.type # "-" =>
                       Before(At(Wr("deleteProfile", id)), At(deleted)))
    /\ [][\A t \in Tasks : Starts(t, "forgetConnection") =>
              \A i \in AllIds :
                  (store[i] # NoProfile /\ store'[i] # NoProfile) => store'[i] = store[i]]_vars

\* a valid SSO connection with a linked IAM connection was forgotten
C23_Witness ==
    \E t \in Tasks :
        /\ Forgot(t)
        /\ tasks[t].id = "uuid-1"
        /\ tasks[t].pre.state = "valid"
        /\ store["uuid-1"] = NoProfile
        /\ store[LinkedId] = NoProfile
        /\ At(Wr("deleteProfile", "uuid-1")) # {}

\* ------------------------------------------------------------ C25
SetState(t) ==
    /\ Done(t, "updateConnectionState")
    /\ tasks[t].val \in PersistedStates
    /\ tasks[t].pre.type # "-"

\* C25: a request to set the state of a stored connection to valid, invalid
\* or unauthenticated writes the store once and fires connectionStateChanged
\* (after activeConnectionChanged when the id is the active connection)
\* exactly when the requested state differs from the stored one; a request
\* for the state already stored writes nothing, fires nothing and leaves the
\* store and the active connection as they were.
C25_AnnouncedOnlyOnChange ==
    /\ [](\A t \in Tasks : SetState(t) =>
            LET id == tasks[t].id
                st == tasks[t].val
            IN  /\ tasks[t].res = "ok"
                /\ store[id].connectionState = st
                /\ log = IF tasks[t].pre.state = st THEN <<>>
                         ELSE IF tasks[t].pre.active = id
                             THEN <<Wr("updateMetadata", id), EvActive(activeConnection),
                                    EvState(id, st)>>
                         ELSE <<Wr("updateMetadata", id), EvState(id, st)>>
                /\ tasks[t].pre.active = id => activeConnection.state = st)
    /\ [][\A t \in Tasks, id \in Ids :
              (/\ Starts(t, "updateConnectionState")
               /\ tasks'[t].id = id
               /\ store[id] # NoProfile
               /\ tasks'[t].val = store[id].connectionState) =>
                  /\ log' = <<>>
                  /\ UNCHANGED <<store, activeConnection, currentProfileId,
                                 validationErrors, invalidCredentialsTimeouts>>]_vars

\* both cases on the active connection: a request that changed its state and
\* a request for the state it already had
C25_Witness ==
    \E t \in Tasks :
        /\ SetState(t)
        /\ tasks[t].pre.active = tasks[t].id
        /\ tasks[t].pre.state = "valid"
        /\ tasks[t].val = "unauthenticated"
        /\ Len(log) = 3

\* ------------------------------------------------------------ C26
LeavesInvalid(id) ==
    /\ store[id] # NoProfile
    /\ store[id].connectionState = "invalid"
    /\ store'[id] # NoProfile
    /\ store'[id].connectionState # "invalid"

C21_TempProviderRemoved ==
    \A t \in Tasks : Done(t, "authenticateData") => tempId \notin env.providers

\* the recognised failure of the access key: the field is reported and the
\* temporary provider and its profile are gone
C21_Witness ==
    \E t \in Tasks :
        /\ Done(t, "authenticateData")
        /\ tasks[t].res = "ok"
        /\ tasks[t].val = "Invalid access key"
        /\ "InvalidClientTokenId" \in tasks[t].seen
        /\ tempId \notin env.providers
        /\ store[tempId] = NoProfile

\* ------------------------------------------------------------ C31
\* the store writes of the state of `id` made after log position r
WrittenSince(id, r) == {i \in At(Wr("updateMetadata", id)) : i > r}

\* C31: no operation stores the state 'authenticating': entering it is only
\* announced (the announcement is followed at once by the callback, with no
\* store write), and while an authentication run is in flight for a stored
\* connection the stored state is the one the run found when it started,
\* as long as no other operation has written the state meanwhile.
C31_AuthenticatingNotStored ==
    \A id \in AllIds :
        /\ store[id].connectionState # "authenticating"
        /\ (pending[id].on /\ store[id] # NoProfile) =>
               /\ log[pending[id].run] = Wr("callback", id)
               /\ log[pending[id].run - 1] = EvState(id, "authenticating")
               /\ WrittenSince(id, pending[id].run) = {} =>
                      store[id].connectionState = pending[id].originalState

\* a valid connection is being re-authenticated: announced, still stored valid
C31_Witness ==
    \E t \in Tasks :
        /\ tasks[t].op = "reauthenticate"
        /\ tasks[t].pc = "reauth_await"
        /\ pending[tasks[t].id].on
        /\ tasks[t].pre.state = "valid"
        /\ store[tasks[t].id].connectionState = "valid"
        /\ log[Len(log) - 1] = EvState(tasks[t].id, "authenticating")

\* ------------------------------------------------------------ C32
\* C32: whenever no operation is in flight and the active connection's id
\* has a profile in the store, the state field of activeConnection is the
\* connectionState stored for that id.
C32_ActiveStateIsStored ==
    (/\ Quiescent
     /\ activeConnection.id \in AllIds
     /\ store[activeConnection.id] # NoProfile) =>
        activeConnection.state = store[activeConnection.id].connectionState

\* a call from the API has made the active connection invalid, in the store
\* and in memory
C32_Witness ==
    \E t \in Tasks :
        /\ Done(t, "setConnectionFromApi")
        /\ tasks[t].pre.active = tasks[t].id
        /\ tasks[t].val = "invalid"
        /\ tasks[t].pre.state = "valid"
        /\ activeConnection.state = "invalid"
        /\ store[tasks[t].id].connectionState = "invalid"
        /\ store[tasks[t].id].source = "amazonq"

\* C33: after completed useConnection, logout, deleteConnection and
\* forgetConnection calls run one at a time, the current-profile pointer of the
\* store is set exactly when an active connection is set, and is then its id.
C33_PointerIffActive ==
    Quiescent =>
        /\ (currentProfileId # Undefined) <=> (activeConnection # NoConn)
        /\ activeConnection # NoConn => currentProfileId = activeConnection.id

\* a forgetConnection of the active SSO connection has completed
C33_Witness ==
    \E t \in Tasks :
        /\ Done(t, "forgetConnection")
        /\ tasks[t].res = "ok"
        /\ tasks[t].pre.active = tasks[t].id
        /\ tasks[t].pre.cur = tasks[t].id
        /\ tasks[t].pre.type = "sso"
        /\ store[tasks[t].id] = NoProfile
        /\ activeConnection = NoConn
        /\ currentProfileId = tasks[t].id

\* C34: after a completed deleteConnection or forgetConnection the active
\* connection is absent or its id still has a profile in the store.
C34_ActiveStillStored ==
    \A t \in Tasks :
        (Done(t, "deleteConnection") \/ Done(t, "forgetConnection")) =>
            \/ activeConnection = NoConn
            \/ store[activeConnection.id] # NoProfile

\* a forgetConnection of the active plain IAM connection has completed
C34_Witness ==
    \E t \in Tasks :
        /\ Done(t, "forgetConnection")
        /\ tasks[t].res = "ok"
        /\ tasks[t].id \in IamIds
        /\ tasks[t].pre.active = tasks[t].id
        /\ tasks[t].pre.type = "iam"
        /\ store[tasks[t].id] = NoProfile

\* logout() in slot t completed after a useConnection for another id, in slot
\* u, completed while it was suspended
Raced(t, u) ==
    /\ LoggedOut(t)
    /\ UsedOk(u)
    /\ tasks[u].id # tasks[t].pre.active
    /\ At(Wr("setCurrentProfileId", tasks[u].id)) # {}
    /\ At(EvActive(NoConn)) # {}
    /\ Before(At(Wr("logout", Undefined)), At(Wr("setCurrentProfileId", tasks[u].id)))
    /\ Before(At(Wr("setCurrentProfileId", tasks[u].id)), At(EvActive(NoConn)))

\* C35: when useConnection for another id completes while logout() is
\* suspended, logout invalidates exactly the connection that was active when
\* it was called; the connection activated meanwhile is not invalidated and is
\* not left as current-profile pointer without being the active connection.
C35_LogoutKeepsItsConnection ==
    \A t, u \in Tasks : Raced(t, u) =>
        /\ \A i \in OfKind({"client.logout", "provider.invalidate", "invalidateCredentials"}) :
               log[i].id = tasks[t].pre.active
        /\ At(Wr("client.logout", tasks[t].pre.active)) # {}
        /\ store[tasks[t].pre.active].connectionState = "invalid"
        /\ currentProfileId = tasks[u].id => activeConnection.id = tasks[u].id

\* useConnection(uuid-2) completed between the pointer write of logout() and
\* its invalidation: logout has invalidated uuid-2
C35_Witness ==
    \E t, u \in Tasks :
        /\ Raced(t, u)
        /\ tasks[t].pre.active = "uuid-1"
        /\ tasks[u].id = "uuid-2"
        /\ Before(At(Wr("setCurrentProfileId", "uuid-2")), OfKind({"client.logout"}))
        /\ At(Wr("client.logout", "uuid-2")) # {}
        /\ currentProfileId = "uuid-2"
        /\ activeConnection = NoConn

\* C36: whenever no operation is in flight, a connection id that has a stored
\* profile has an entry in the validation-error registry only if its stored
\* state is invalid.
C36_ErrorOnlyWhenInvalid ==
    Quiescent =>
        \A id \in AllIds :
            (store[id] # NoProfile /\ id \in validationErrors) =>
                store[id].connectionState = "invalid"

\* a reauthenticate that was told not to invalidate has failed: the connection
\* is still valid and its error is recorded
C36_Witness ==
    \E t \in Tasks :
        /\ Done(t, "reauthenticate")
        /\ Quiescent
        /\ tasks[t].res \in CallbackErrors
        /\ tasks[t].pre.state = "valid"
        /\ ~tasks[t].pre.hadError
        /\ store[tasks[t].id].connectionState = "valid"
        /\ tasks[t].id \in validationErrors

\* the calls that wait at the re-auth prompt of `id`
Prompting(id) == {t \in Tasks : tasks[t].pc = "tok_prompt" /\ tasks[t].id = id}

\* slot t opens a prompt in this step
OpensPrompt(t) == tasks[t].pc # "tok_prompt" /\ tasks'[t].pc = "tok_prompt"

\* C37: at most one re-auth prompt is pending per connection id; a getToken or
\* getCredentials call made while the run for its id is in flight attaches to
\* it and opens no prompt; a prompt opens only for a connection stored valid,
\* so that after a decline or timeout, which leave it invalid, a later call
\* that finds no token fails without prompting.
C37_OnePromptPerId ==
    /\ [](\A id \in AllIds : Cardinality(Prompting(id)) <= 1)
    /\ [][\A t \in Tasks :
            /\ (~Busy(t) /\ tasks'[t].pc \notin {"idle", "done"}
                   /\ tasks'[t].op \in FetchOps
                   /\ FetchRun(tasks'[t].op, tasks'[t].id) # {}) =>
                   /\ tasks'[t].pc = "fetch_join"
                   /\ log' = log
            /\ OpensPrompt(t) =>
                   /\ ~tasks[t].joined
                   /\ Prompting(tasks[t].id) = {}
                   /\ store[tasks[t].id].connectionState = "valid"
                   /\ store'[tasks[t].id].connectionState = "invalid"
            /\ (tasks[t].pc = "tok_prompt" /\ tasks'[t].pc = "done") =>
                   /\ tasks'[t].res = "UserCancelled"
                   /\ store'[tasks[t].id].connectionState = store[tasks[t].id].connectionState
            /\ (tasks[t].pc \in {"tok_get", "cred_get"}
                   /\ tasks'[t].got \in {"none", "miss"}
                   /\ store[tasks[t].id].connectionState = "invalid") =>
                   /\ tasks'[t].pc = "done"
                   /\ tasks'[t].res = "InvalidConnection"
            /\ (tasks[t].pc = "fetch_join" /\ tasks'[t].pc # "fetch_join") =>
                   /\ tasks'[t].pc = "done"
                   /\ log' = log
                   /\ \E u \in Tasks \ {t} :
                          /\ tasks[u].op = tasks[t].op /\ tasks[u].id = tasks[t].id
                          /\ ~tasks[u].joined /\ tasks[u].pc = "done"
                          /\ tasks'[t].res = tasks[u].res]_vars

\* a getToken call attached to the run whose prompt was open has received the
\* decline of that prompt
C37_Witness ==
    \E t, u \in Tasks :
        /\ Done(t, "getToken") /\ Done(u, "getToken")
        /\ ~tasks[t].joined /\ tasks[u].joined
        /\ tasks[t].res = "UserCancelled"
        /\ tasks[u].res = "UserCancelled"
        /\ Cardinality(At(Wr("prompt", "uuid-1"))) = 1
        /\ At(Wr("prompt", "uuid-1")) # {}
        /\ tasks[u].start >= CHOOSE i \in At(Wr("prompt", "uuid-1")) : TRUE

\* the state of `id` as an observer of connectionStateChanged knows it: the
\* state carried by the last event for `id`
StateEvents(id) ==
    {i \in 1..Len(log) : log[i].k = "connectionStateChanged" /\ log[i].id = id}
Observed(id) ==
    IF StateEvents(id) = {} THEN "-"
    ELSE log[CHOOSE i \in StateEvents(id) : \A j \in StateEvents(id) : j <= i].st

\* C38: every 'authenticating' announcement for a connection id is eventually
\* followed by a connectionStateChanged event for that id carrying valid,
\* invalid or unauthenticated, when the authentication callback terminates.
C38_AuthenticatingResolved ==
    \A id \in Ids :
        (Observed(id) = "authenticating") ~>
            (Observed(id) \in {"valid", "invalid", "unauthenticated"})

\* a reauthenticate of a valid connection has succeeded and every call has
\* returned; the last event for the connection is the announcement
C38_Witness ==
    \E t \in Tasks :
        /\ Done(t, "reauthenticate")
        /\ Quiescent
        /\ tasks[t].res = "ok"
        /\ tasks[t].pre.state = "valid"
        /\ store[tasks[t].id].connectionState = "valid"
        /\ ~pending[tasks[t].id].on
        /\ Observed(tasks[t].id) = "authenticating"

\* C39: after any completed public operation, the context key
\* 'aws.isInternalUser' is true exactly when the active connection is an SSO
\* connection whose normalized start URL is the internal URL; it is false
\* whenever no connection is active.
C39_FlagFollowsActive ==
    Quiescent =>
        (isInternalUser <=>
            /\ activeConnection.type = "sso"
            /\ normalizeStartUrl(activeConnection.startUrl) = internalStartUrl)

\* logout() of the internal connection has completed and the key is still true
C39_Witness ==
    \E t \in Tasks :
        /\ LoggedOut(t)
        /\ tasks[t].pre.active = "uuid-1"
        /\ activeConnection = NoConn
        /\ isInternalUser

\* C40: there is at most one live visualization per file path, and the
\* disposal of a visualization removes from the map its own entry only, never
\* the entry of another live visualization of that path.
C40_OneVisualizationPerPath ==
    /\ [](\A p \in Paths : Cardinality(Live(p)) <= 1)
    /\ [][\A v \in VizIds :
            (visualizations[v].state = "live" /\ visualizations'[v].state = "disposed") =>
                \A p \in Paths :
                    managedVisualizations'[p] =
                        IF managedVisualizations[p] = v THEN 0
                        ELSE managedVisualizations[p]]_vars

\* two overlapping visualizeTemplate calls for one path have each created a
\* visualization; the first was disposed and took the entry of the second,
\* which is live and no longer in the map
C40_Witness ==
    \E c, d \in Tasks, v, w \in VizIds :
        /\ c # d /\ v # w
        /\ composerCalls[c].pc = "done" /\ composerCalls[c].path = "/a/template.yaml"
        /\ composerCalls[c].res = v
        /\ composerCalls[d].pc = "done" /\ composerCalls[d].path = "/a/template.yaml"
        /\ composerCalls[d].res = w
        /\ visualizations[v] = [path |-> "/a/template.yaml", state |-> "disposed"]
        /\ visualizations[w] = [path |-> "/a/template.yaml", state |-> "live"]
        /\ managedVisualizations["/a/template.yaml"] = 0

====
